---- MODULE Spec2Model ----
(***************************************************************************)
(* Model of the IdeaGenerator wizard component (src/Code.tsx): the step    *)
(* state machine, the refinement chat, the generation trigger, the session *)
(* snapshot and the keyboard handler.                                      *)
(*                                                                         *)
(* One action is one event handled by the component (a click, a key, a     *)
(* timer, a network completion) followed by the renders and effects that   *)
(* React runs before the next event: a handler is an operator from the     *)
(* component state to the component state, and Settle runs the effects     *)
(* whose dependencies changed until nothing changes any more.              *)
(*                                                                         *)
(* The step values 1, 2, 3, 3.5, 4 are kept in tenths (10, 20, 30, 35, 40) *)
(* because the integers have no 3.5.  Texts are sequences of characters.   *)
(***************************************************************************)
EXTENDS Integers, Sequences, FiniteSets, TLC

(***************************************************************************)
(* Bounds of the exploration.                                              *)
(***************************************************************************)
\* the user answers only while the history has fewer turns than this
MaxChat == 2
\* the user starts something that may issue a request (an answer, the entry
\* into Refinement, the confirmation of a skip, a regeneration) only while
\* fewer asynchronous operations than this are in flight
MaxInFlight == 1
\* the clock value (ms) at which a page is loaded
PageLoadTime == 7200000
\* the largest maxRetries fetchWithRetry is called with on its own
MaxRetries == 5
\* the calls of fetchFinalScriptRef.current that are followed step by step
MaxCalls == 1
\* the chunks an event stream is delivered in, at most
MaxChunks == 3

(***************************************************************************)
(* Values.                                                                 *)
(***************************************************************************)
NULL == [null |-> TRUE]

StepStyle == 10
StepTopic == 20
StepSettings == 30
StepRefinement == 35
StepResult == 40
\* the literal 1 of currentStep + 1 and currentStep - 1, in tenths
One == 10
Steps == {StepStyle, StepTopic, StepSettings, StepRefinement, StepResult}

\* slice(-49) keeps the last 49 turns before a user turn is appended
KeepLast == 49
\* age < 3600000
FreshWindow == 3600000
\* errText.slice(0, 300)
ErrTextLimit == 300

\* the inputs of the user in the specification of the form (SpecForm) ...
StyleIds == {"meme", "other"}
Texts == {<<>>, <<" ">>, <<"k">>, <<" ", "k", " ">>}
ToneOptions == {"Casual", "Formal"}
LanguageOptions == {"English", "Korean"}
Lengths == {45, 60}
\* ... and in the specification of the whole session (Spec)
SessionStyleIds == {"meme"}
SessionTexts == {<<>>, <<"k">>}
SessionTones == {"Casual"}
SessionLanguages == {"English"}
\* the time between the last save and a reload
ElapsedTimes == {0, 3599999, 3600000, PageLoadTime}
\* what a question fetch resolves to: a question with options, or
\* {question: null} (the service's answer, or the degraded failure)
QuestionResponses ==
    { [question |-> TRUE, options |-> "some"],
      [question |-> FALSE, options |-> "empty"] }

VARIABLES
    \* React state (useState)
    isExpanded, currentStep, selectedStyle, customStyleName, keyword,
    scriptLength, selectedLanguage, selectedTone, ctaInclusion,
    chatMessages, userInput, isTyping, skipRefinement, showSkipConfirm,
    questionFetchFailed, apiResults, isLoading, apiError, scoreData,
    hasUnsavedChanges, modalConfig, showSidePanel,
    \* refs (useRef)
    hasAttemptedQuestionFetch,
    typing,             \* the typing simulation typingTimeoutRef points at
    \* the environment
    storage,            \* sessionStorage["ideaGenerator_state"]
    chatTimers,         \* continuations of handleChatResponse in flight
    questionFetches,    \* first-question fetches in flight
    stepTimers,         \* pending setTimeout(() => setCurrentStep(4))
    generations,        \* calls of fetchFinalScriptRef.current in flight
    keyHandler,         \* the render the registered handleKeyDown closes over
    \* one call of the request pipeline, step by step
    call,               \* the call in flight: fetchWithRetry and its caller
    ended,              \* how the call before it ended
    \* a function of the component applied to an input
    applied

vars == << isExpanded, currentStep, selectedStyle, customStyleName, keyword,
           scriptLength, selectedLanguage, selectedTone, ctaInclusion,
           chatMessages, userInput, isTyping, skipRefinement, showSkipConfirm,
           questionFetchFailed, apiResults, isLoading, apiError, scoreData,
           hasUnsavedChanges, modalConfig, showSidePanel,
           hasAttemptedQuestionFetch, typing,
           storage, chatTimers, questionFetches, stepTimers, generations,
           keyHandler, call, ended, applied >>

\* the component state as one record, the argument of the handlers
Cur ==
    [ isExpanded |-> isExpanded, currentStep |-> currentStep,
      selectedStyle |-> selectedStyle, customStyleName |-> customStyleName,
      keyword |-> keyword, scriptLength |-> scriptLength,
      selectedLanguage |-> selectedLanguage, selectedTone |-> selectedTone,
      ctaInclusion |-> ctaInclusion, chatMessages |-> chatMessages,
      userInput |-> userInput, isTyping |-> isTyping,
      skipRefinement |-> skipRefinement, showSkipConfirm |-> showSkipConfirm,
      questionFetchFailed |-> questionFetchFailed, apiResults |-> apiResults,
      isLoading |-> isLoading, apiError |-> apiError, scoreData |-> scoreData,
      hasUnsavedChanges |-> hasUnsavedChanges, modalConfig |-> modalConfig,
      showSidePanel |-> showSidePanel,
      hasAttemptedQuestionFetch |-> hasAttemptedQuestionFetch,
      typing |-> typing, storage |-> storage, chatTimers |-> chatTimers,
      questionFetches |-> questionFetches, stepTimers |-> stepTimers,
      generations |-> generations, keyHandler |-> keyHandler ]

(***************************************************************************)
(* Helpers.                                                                *)
(***************************************************************************)
\* the white space of the texts of the model: the blank and the line feed
WhiteSpace == {" ", "\n"}

RECURSIVE TrimStart(_)
TrimStart(t) ==
    IF t # <<>> /\ Head(t) \in WhiteSpace THEN TrimStart(Tail(t)) ELSE t

RECURSIVE TrimEnd(_)
TrimEnd(t) ==
    IF t # <<>> /\ t[Len(t)] \in WhiteSpace
    THEN TrimEnd(SubSeq(t, 1, Len(t) - 1)) ELSE t

\* String.prototype.trim
Trim(t) == TrimEnd(TrimStart(t))

\* Array.prototype.slice(-n)
SliceLast(s, n) ==
    IF Len(s) <= n THEN s ELSE SubSeq(s, Len(s) - n + 1, Len(s))

RemoveAt(s, i) == SubSeq(s, 1, i - 1) \o SubSeq(s, i + 1, Len(s))


(***************************************************************************)
(* Texts and JavaScript values.  A text is a sequence of characters; a     *)
(* string value is Str(text), an object Obj(properties) with its           *)
(* properties in the order they were written, null and undefined are NULL. *)
(***************************************************************************)
Str(t) == [str |-> t]
Obj(p) == [obj |-> p]
IsStr(v) == DOMAIN v = {"str"}
IsObj(v) == DOMAIN v = {"obj"}

KeyResult == <<"r", "e", "s", "u", "l", "t">>
KeyScript == <<"s", "c", "r", "i", "p", "t">>
KeyContent == <<"c", "o", "n", "t", "e", "n", "t">>

\* input.key: the last property written with that key, or undefined
RECURSIVE Lookup(_, _)
Lookup(p, key) ==
    IF p = <<>> THEN NULL
    ELSE IF p[Len(p)].k = key THEN p[Len(p)].v
    ELSE Lookup(SubSeq(p, 1, Len(p) - 1), key)

Get(v, key) == IF IsObj(v) THEN Lookup(v.obj, key) ELSE NULL

\* !v is false
Truthy(v) == v # NULL /\ v # Str(<<>>)

\* String.prototype.includes
StartsWith(t, p) == Len(p) <= Len(t) /\ SubSeq(t, 1, Len(p)) = p

Includes(t, p) ==
    \E i \in 0..Len(t) : StartsWith(SubSeq(t, i + 1, Len(t)), p)

\* String.prototype.slice(0, n)
SliceFirst(t, n) == IF Len(t) <= n THEN t ELSE SubSeq(t, 1, n)

UpperCase ==
    << "A", "B", "C", "D", "E", "F", "G", "H", "I", "J", "K", "L", "M",
       "N", "O", "P", "Q", "R", "S", "T", "U", "V", "W", "X", "Y", "Z" >>
LowerCase ==
    << "a", "b", "c", "d", "e", "f", "g", "h", "i", "j", "k", "l", "m",
       "n", "o", "p", "q", "r", "s", "t", "u", "v", "w", "x", "y", "z" >>
DigitChars == << "0", "1", "2", "3", "4", "5", "6", "7", "8", "9" >>

\* String.prototype.toLowerCase
ToLowerCase(t) ==
    [ i \in DOMAIN t |->
        IF \E j \in DOMAIN UpperCase : UpperCase[j] = t[i]
        THEN LowerCase[CHOOSE j \in DOMAIN UpperCase : UpperCase[j] = t[i]]
        ELSE t[i] ]

\* the class \w of a regular expression
IsWordChar(c) ==
    \/ \E j \in DOMAIN UpperCase : UpperCase[j] = c
    \/ \E j \in DOMAIN LowerCase : LowerCase[j] = c
    \/ \E j \in DOMAIN DigitChars : DigitChars[j] = c
    \/ c = "_"

\* the template `${n}` of a number that is not negative
RECURSIVE NumberToText(_)
NumberToText(n) ==
    IF n < 10 THEN << DigitChars[n + 1] >>
    ELSE NumberToText(n \div 10) \o << DigitChars[(n % 10) + 1] >>

Num(n) == [num |-> n]
IsNum(v) == DOMAIN v = {"num"}

(***************************************************************************)
(* JSON.parse, for the texts of the model: strings without escapes,        *)
(* objects, and blanks between the tokens.                                 *)
(***************************************************************************)
ParseFailed == [ok |-> FALSE, v |-> NULL, next |-> 0]

RECURSIVE SkipBlanks(_, _)
SkipBlanks(t, i) ==
    IF i <= Len(t) /\ t[i] = " " THEN SkipBlanks(t, i + 1) ELSE i

RECURSIVE ClosingQuote(_, _)
ClosingQuote(t, i) ==
    IF i > Len(t) THEN 0
    ELSE IF t[i] = "\"" THEN i
    ELSE ClosingQuote(t, i + 1)

\* a string literal that opens at t[i]
ParseString(t, i) ==
    IF i > Len(t) \/ t[i] # "\"" THEN ParseFailed
    ELSE LET j == ClosingQuote(t, i + 1)
         IN  IF j = 0 THEN ParseFailed
             ELSE [ok |-> TRUE, v |-> Str(SubSeq(t, i + 1, j - 1)),
                   next |-> j + 1]

RECURSIVE ParseValue(_, _)
RECURSIVE ParseMembers(_, _, _)
ParseValue(t, i) ==
    LET j == SkipBlanks(t, i)
    IN  IF j > Len(t) THEN ParseFailed
        ELSE IF t[j] = "\"" THEN ParseString(t, j)
        ELSE IF t[j] = "{"
        THEN LET k == SkipBlanks(t, j + 1)
             IN  IF k <= Len(t) /\ t[k] = "}"
                 THEN [ok |-> TRUE, v |-> Obj(<<>>), next |-> k + 1]
                 ELSE ParseMembers(t, k, <<>>)
        ELSE ParseFailed

\* the members of an object from t[i] on, after the members p
ParseMembers(t, i, p) ==
    LET key == ParseString(t, SkipBlanks(t, i))
    IN  IF ~key.ok THEN ParseFailed
        ELSE LET c == SkipBlanks(t, key.next)
             IN  IF c > Len(t) \/ t[c] # ":" THEN ParseFailed
                 ELSE LET val == ParseValue(t, c + 1)
                      IN  IF ~val.ok THEN ParseFailed
                          ELSE LET q == Append(p, [k |-> key.v.str,
                                                   v |-> val.v])
                                   e == SkipBlanks(t, val.next)
                               IN  IF e > Len(t) THEN ParseFailed
                                   ELSE IF t[e] = "}"
                                   THEN [ok |-> TRUE, v |-> Obj(q),
                                         next |-> e + 1]
                                   ELSE IF t[e] = ","
                                   THEN ParseMembers(t, e + 1, q)
                                   ELSE ParseFailed

safeJsonParse(t) ==
    LET r == ParseValue(t, 1)
    IN  IF r.ok /\ SkipBlanks(t, r.next) > Len(t) THEN r.v ELSE Str(t)

normalizeResult(input) ==
    IF input = NULL THEN Str(<<>>)
    ELSE IF IsStr(input) THEN input
    ELSE IF IsObj(input)
    THEN LET result == Get(input, KeyResult)
         IN  IF IsStr(result) THEN result
             ELSE IF Truthy(result) /\ IsObj(result) THEN result
             ELSE IF Truthy(result) /\ IsStr(Get(result, KeyContent))
             THEN Get(result, KeyContent)
             ELSE input
    ELSE Str(NumberToText(input.num))

(***************************************************************************)
(* TextDecoder.decode(value, {stream: true}) over the bytes of the model:  *)
(* a byte below 0x80 is its character, "C3" opens a sequence of two bytes  *)
(* and "A9" continues one; "C3" "A9" is the character U+00E9.  A byte that    *)
(* cannot stand where it stands decodes to U+FFFD.  The decoder keeps an   *)
(* opened sequence (held) until the next call.                             *)
(***************************************************************************)
LeadByte == "C3"
ContinuationByte == "A9"
ReplacementChar == "U+FFFD"
DecodedChar == "U+00E9"

RECURSIVE Decode(_, _)
Decode(bytes, held) ==
    IF bytes = <<>> THEN [text |-> <<>>, held |-> held]
    ELSE LET b == Head(bytes)
         IN  IF held
             THEN IF b = ContinuationByte
                  THEN LET r == Decode(Tail(bytes), FALSE)
                       IN  [r EXCEPT !.text = << DecodedChar >> \o @]
                  ELSE LET r == Decode(bytes, FALSE)
                       IN  [r EXCEPT !.text = << ReplacementChar >> \o @]
             ELSE IF b = LeadByte THEN Decode(Tail(bytes), TRUE)
             ELSE LET r == Decode(Tail(bytes), FALSE)
                  IN  [r EXCEPT !.text =
                          << IF b = ContinuationByte
                             THEN ReplacementChar ELSE b >> \o @]

(***************************************************************************)
(* The state after construction (useState / useRef initial values).        *)
(***************************************************************************)
Fresh ==
    [ isExpanded |-> FALSE, currentStep |-> StepStyle,
      selectedStyle |-> "", customStyleName |-> <<>>, keyword |-> <<>>,
      scriptLength |-> 45, selectedLanguage |-> "Select",
      selectedTone |-> "Select", ctaInclusion |-> FALSE,
      chatMessages |-> <<>>, userInput |-> <<>>, isTyping |-> FALSE,
      skipRefinement |-> FALSE, showSkipConfirm |-> FALSE,
      questionFetchFailed |-> FALSE, apiResults |-> NULL,
      isLoading |-> FALSE, apiError |-> NULL, scoreData |-> NULL,
      hasUnsavedChanges |-> FALSE,
      modalConfig |-> [show |-> FALSE, title |-> "", type |-> "alert"],
      showSidePanel |-> FALSE,
      hasAttemptedQuestionFetch |-> FALSE, typing |-> NULL ]

\* what handleKeyDown reads of the render it was registered in
Closure(S) ==
    [ showSkipConfirm |-> S.showSkipConfirm, isExpanded |-> S.isExpanded,
      currentStep |-> S.currentStep, userInput |-> S.userInput,
      selectedStyle |-> S.selectedStyle,
      customStyleName |-> S.customStyleName, keyword |-> S.keyword,
      selectedTone |-> S.selectedTone,
      selectedLanguage |-> S.selectedLanguage ]

\* a page that has just been constructed, over the session storage st
Mounted(st) ==
    [ f \in (DOMAIN Fresh) \cup
            { "storage", "chatTimers", "questionFetches", "stepTimers",
              "generations", "keyHandler" } |->
        CASE f = "storage" -> st
          [] f = "chatTimers" -> <<>>
          [] f = "questionFetches" -> <<>>
          [] f = "stepTimers" -> 0
          [] f = "generations" -> <<>>
          [] f = "keyHandler" -> Closure(Fresh)
          [] OTHER -> Fresh[f] ]

(***************************************************************************)
(* The step machine.                                                       *)
(***************************************************************************)
setCurrentStep(S, v) == [S EXCEPT !.currentStep = v]

\* canProceed without trim()
canProceedUntrimmed(S) ==
    IF S.currentStep = StepStyle
    THEN S.selectedStyle # "" /\
         (S.selectedStyle # "other" \/ S.customStyleName # <<>>)
    ELSE IF S.currentStep = StepTopic THEN S.keyword # <<>>
    ELSE IF S.currentStep = StepSettings
    THEN S.selectedTone # "Select" /\ S.selectedLanguage # "Select"
    ELSE IF S.currentStep = StepRefinement THEN FALSE
    ELSE TRUE

\* canProceed, over the render S it closes over
canProceed(S) ==
    IF S.currentStep = StepStyle
    THEN S.selectedStyle # "" /\
         (S.selectedStyle # "other" \/ Trim(S.customStyleName) # <<>>)
    ELSE IF S.currentStep = StepTopic THEN Trim(S.keyword) # <<>>
    ELSE IF S.currentStep = StepSettings
    THEN S.selectedTone # "Select" /\ S.selectedLanguage # "Select"
    ELSE IF S.currentStep = StepRefinement THEN FALSE
    ELSE TRUE

\* handleNext of the render whose currentStep is c
handleNextOf(S, c) ==
    IF c = StepSettings
    THEN [setCurrentStep(S, StepRefinement) EXCEPT
              !.questionFetchFailed = FALSE,
              !.hasAttemptedQuestionFetch = FALSE]
    ELSE IF c < StepResult /\ c # StepRefinement
    THEN setCurrentStep(S, c + One)
    ELSE S

handleNext(S) == handleNextOf(S, S.currentStep)

\* handleBack without its guard currentStep > 1
handleBackOfBelowStyle(S, c) ==
    IF c = StepRefinement
    THEN [setCurrentStep(S, StepSettings) EXCEPT
              !.chatMessages = <<>>,
              !.skipRefinement = FALSE,
              !.questionFetchFailed = FALSE,
              !.hasAttemptedQuestionFetch = FALSE]
    ELSE setCurrentStep(S, c - One)

\* handleBack that leaves the history of Refinement in place
handleBackOfKeepingChat(S, c) ==
    IF c = StepRefinement
    THEN [setCurrentStep(S, StepSettings) EXCEPT
              !.skipRefinement = FALSE,
              !.questionFetchFailed = FALSE,
              !.hasAttemptedQuestionFetch = FALSE]
    ELSE IF c > StepStyle
    THEN setCurrentStep(S, c - One)
    ELSE S

\* handleBack of the render whose currentStep is c
handleBackOf(S, c) ==
    IF c = StepRefinement
    THEN [setCurrentStep(S, StepSettings) EXCEPT
              !.chatMessages = <<>>,
              !.skipRefinement = FALSE,
              !.questionFetchFailed = FALSE,
              !.hasAttemptedQuestionFetch = FALSE]
    ELSE IF c > StepStyle
    THEN setCurrentStep(S, c - One)
    ELSE S

handleBack(S) == handleBackOf(S, S.currentStep)

\* handleSkipRefinement that skips at once
handleSkipRefinementAtOnce(S) ==
    setCurrentStep([S EXCEPT !.skipRefinement = TRUE], StepResult)

handleSkipRefinement(S) == [S EXCEPT !.showSkipConfirm = TRUE]

confirmSkip(S) ==
    setCurrentStep([S EXCEPT !.skipRefinement = TRUE,
                             !.showSkipConfirm = FALSE], StepResult)

\* a session storage that holds no item and whose setItem throws
QuotaExceeded == [full |-> TRUE]
\* an item of the session storage that JSON.parse rejects
Unparsable == [corrupt |-> TRUE]

\* sessionStorage.removeItem on the storage st
removeItem(st) == IF st = QuotaExceeded THEN st ELSE NULL

\* the notice of a storage failure; its onConfirm closes it
Notice(title) == [show |-> TRUE, title |-> title, type |-> "alert"]

\* the reset of handleCollapse taken without a question
CollapseDirect(S) ==
    [S EXCEPT !.isExpanded = FALSE, !.currentStep = StepStyle,
              !.selectedStyle = "", !.customStyleName = <<>>,
              !.keyword = <<>>, !.scriptLength = 45,
              !.selectedLanguage = "Select", !.selectedTone = "Select",
              !.ctaInclusion = FALSE, !.apiResults = NULL,
              !.isLoading = FALSE, !.apiError = NULL, !.scoreData = NULL,
              !.showSidePanel = FALSE,
              !.chatMessages = <<>>, !.skipRefinement = FALSE,
              !.hasUnsavedChanges = FALSE, !.storage = removeItem(@)]

\* CollapseConfirm without sessionStorage.removeItem
CollapseConfirmKeepingSnapshot(S) ==
    [S EXCEPT !.modalConfig = [@ EXCEPT !.show = FALSE],
              !.isExpanded = FALSE, !.currentStep = StepStyle,
              !.selectedStyle = "", !.customStyleName = <<>>,
              !.keyword = <<>>, !.apiResults = NULL,
              !.chatMessages = <<>>, !.userInput = <<>>,
              !.hasUnsavedChanges = FALSE]

\* modalConfig.onConfirm of the "Unsaved Work" question
CollapseConfirm(S) ==
    [S EXCEPT !.modalConfig = [@ EXCEPT !.show = FALSE],
              !.isExpanded = FALSE, !.currentStep = StepStyle,
              !.selectedStyle = "", !.customStyleName = <<>>,
              !.keyword = <<>>, !.apiResults = NULL,
              !.chatMessages = <<>>, !.userInput = <<>>,
              !.hasUnsavedChanges = FALSE, !.storage = removeItem(@)]

handleCollapse(S) ==
    IF S.hasUnsavedChanges \/ S.currentStep > StepStyle
    THEN [S EXCEPT !.modalConfig = [show |-> TRUE, title |-> "Unsaved Work",
                                    type |-> "confirm"]]
    ELSE CollapseDirect(S)

(***************************************************************************)
(* The refinement chat.                                                    *)
(***************************************************************************)
UserTurn ==
    [type |-> "user", content |-> "answer", options |-> "none"]

\* typeMessage(text, callback): the simulation typingTimeoutRef pointed at
\* is cancelled with its callback, and the new one takes its place
typeMessage(S, t) == [S EXCEPT !.isTyping = TRUE, !.typing = t]

\* conversationHistory of fetchNextQuestion: the turns mapped to
\* {role, question, options} and {role, answer}; options "none" is a turn
\* without options, whose entry has no options property
ConversationHistory(messages) ==
    [ i \in DOMAIN messages |->
        IF messages[i].type = "ai"
        THEN [role |-> "assistant", question |-> messages[i].content,
              options |-> messages[i].options]
        ELSE [role |-> "user", answer |-> messages[i].content] ]

\* handleChatResponse(response, messageId): i is the position of the turn
\* with that id, 0 when no id is passed; the timer calls the
\* fetchNextQuestion handleChatResponse was created with, that of the
\* render S the handler belongs to
handleChatResponse(S, i) ==
    LET cleared == IF i = 0 THEN S.chatMessages
                   ELSE [S.chatMessages EXCEPT ![i].options = "none"]
    IN  [S EXCEPT !.chatMessages =
                      Append(SliceLast(cleared, KeepLast), UserTurn),
                  !.userInput = <<>>,
                  !.isTyping = TRUE,
                  !.chatTimers =
                      Append(@, [phase |-> "delay",
                                 conversationHistory |->
                                     ConversationHistory(S.chatMessages)])]

\* ChatContinuation reporting a missing question as an error
ChatContinuationRaisingError(S, c, r) ==
    IF r.question
    THEN typeMessage(S, [content |-> "question", options |-> r.options,
                         first |-> FALSE, isMounted |-> TRUE])
    ELSE [typeMessage(S, [content |-> "closing", options |-> "none",
                          first |-> FALSE, isMounted |-> TRUE])
            EXCEPT !.apiError = [type |-> "network", retryable |-> TRUE]]

\* the body of the 800 ms timer once fetchNextQuestion has resolved to r
ChatContinuation(S, c, r) ==
    IF r.question
    THEN typeMessage(S, [content |-> "question", options |-> r.options,
                         first |-> FALSE, isMounted |-> TRUE])
    ELSE typeMessage(S, [content |-> "closing", options |-> "none",
                         first |-> FALSE, isMounted |-> TRUE])

AiTurn(t) ==
    [type |-> "ai", content |-> t.content, options |-> t.options]

\* the last step of type(): setIsTyping(false) and the callback
TypingFinished(S) ==
    LET t == S.typing
        S1 == [S EXCEPT !.isTyping = FALSE, !.typing = NULL]
    IN  IF t.first
        THEN IF t.isMounted
             THEN [S1 EXCEPT !.chatMessages = << AiTurn(t) >>,
                             !.isLoading = FALSE]
             ELSE S1
        ELSE IF t.content = "closing"
        THEN [S1 EXCEPT !.chatMessages = Append(@, AiTurn(t)),
                        !.stepTimers = @ + 1]
        ELSE [S1 EXCEPT !.chatMessages = Append(@, AiTurn(t))]

FallbackTurn ==
    [type |-> "ai", content |-> "fallback", options |-> "empty"]

\* the .then of the first-question effect, f the fetch, r what it resolved to
FirstQuestionContinuation(S, f, r) ==
    IF ~f.isMounted THEN S
    ELSE IF r.question
    THEN typeMessage(S, [content |-> "question", options |-> r.options,
                         first |-> TRUE, isMounted |-> TRUE])
    ELSE [S EXCEPT !.isLoading = FALSE,
                   !.questionFetchFailed = TRUE,
                   !.chatMessages = << FallbackTurn >>]

(***************************************************************************)
(* The generation pipeline, as far as the wizard sees it.                  *)
(***************************************************************************)
\* chatMessages.filter(user).map(content).join(", "): the answers in order
UserAnswers(messages) ==
    LET at == { i \in DOMAIN messages : messages[i].type = "user" }
        nth(k) == CHOOSE i \in at : Cardinality({ j \in at : j < i }) = k - 1
    IN  [joined |-> [k \in 1..Cardinality(at) |-> messages[nth(k)].content]]

\* fetchFinalScriptRef.current up to its first await; the call in flight
\* remembers whether it replaced a displayed error (setApiError(null)) and
\* the refinementContext of its request
fetchFinalScript(S) ==
    [S EXCEPT !.isLoading = TRUE, !.apiError = NULL, !.apiResults = NULL,
              !.scoreData = NULL,
              !.generations =
                  Append(@, [afterError |-> S.apiError # NULL,
                             refinementContext |->
                                 IF S.skipRefinement THEN NULL
                                 ELSE UserAnswers(S.chatMessages),
                             regenerate |-> FALSE])]

\* regenerateWithEdit with regenerateRequest = request: the request carries
\* no refinementContext, and apiResults is kept while the call is in flight
regenerateWithEdit(S, request) ==
    IF Trim(request) = <<>> THEN S
    ELSE [S EXCEPT !.isLoading = TRUE, !.apiError = NULL,
                   !.scoreData = NULL,
                   !.generations =
                       Append(@, [afterError |-> S.apiError # NULL,
                                  refinementContext |-> NULL,
                                  regenerate |-> TRUE])]

MiddleDot == "U+00B7"
\* the text "HTTP " of an error message
HttpPrefix == << "H", "T", "T", "P", " " >>

\* `HTTP ${response.status} ${response.statusText}` followed, when the body
\* of the response is not empty, by a middle dot between blanks and its first 300 characters
HttpErrorMessage(status, statusText, errText) ==
    HttpPrefix \o NumberToText(status) \o << " " >> \o statusText \o
    (IF errText # <<>>
     THEN << " ", MiddleDot, " " >> \o SliceFirst(errText, ErrTextLimit)
     ELSE <<>>)

\* e is what was thrown (name, message) and navigator.onLine at that time
createApiError(e) ==
    IF e.name = "AbortError" THEN [type |-> "timeout", retryable |-> TRUE]
    ELSE IF ~e.online THEN [type |-> "network", retryable |-> TRUE]
    ELSE IF Includes(e.message, HttpPrefix \o << "5" >>)
    THEN [type |-> "server", retryable |-> TRUE]
    ELSE IF Includes(e.message, HttpPrefix \o << "4" >>)
    THEN [type |-> "server", retryable |-> FALSE]
    ELSE [type |-> "unknown", retryable |-> TRUE]

\* what a failed generation call throws, in the session (Spec)
AbortMessage == << "a", "b", "o", "r", "t", "e", "d" >>
FailureInputs ==
    { [name |-> "AbortError", online |-> TRUE, message |-> AbortMessage],
      [name |-> "Error", online |-> TRUE,
       message |-> HttpErrorMessage(404, <<>>, <<>>)] }

\* the result of a generation in the session (Spec): {script: "Hi you"}
SessionScript == << "H", "i", " ", "y", "o", "u" >>
SessionResult == Obj(<< [k |-> KeyScript, v |-> Str(SessionScript)] >>)

\* the call g returns a result: setApiResults(final), then the finally block
GenerationResolved(S, g) ==
    [S EXCEPT !.apiResults = normalizeResult(SessionResult),
              !.showSidePanel = IF g.regenerate THEN FALSE ELSE @,
              !.isLoading = FALSE]

\* the call g throws e: the catch block, then the finally block
GenerationRejected(S, e) ==
    [S EXCEPT !.apiError = createApiError(e), !.isLoading = FALSE]

(***************************************************************************)
(* calculateScores.  A score that is not an integer is kept as a fraction  *)
(* n / d with d > 0 until Math.round is applied.                           *)
(***************************************************************************)
Max(a, b) == IF a >= b THEN a ELSE b
Min(a, b) == IF a <= b THEN a ELSE b
Abs(a) == IF a >= 0 THEN a ELSE 0 - a

\* Math.round of n / d, for n >= 0
Round(n, d) == (2 * n + d) \div (2 * d)

\* the occurrences of the character c in t
CountChar(t, c) == Cardinality({ i \in DOMAIN t : t[i] = c })

IsSentenceEnd(c) == c \in {".", "!", "?"}

\* t.split(separator), for a separator that is a class of characters taken
\* in runs (/[.!?]+/, /\W+/): at is the set of the positions of t that hold a
\* character of the class.  The pieces are what lies before the first run
\* of separators, between two runs and after the last run (a piece at
\* either end can be empty); they are given by the position where the run
\* before them starts.
RunStarts(at) == { i \in at : (i - 1) \notin at }

\* the piece after the run that starts at from (0: the piece before the
\* first run), the next run starting at to (Len(t) + 1: the end of t)
PieceOf(t, at, from, to) ==
    LET kept == Cardinality({ i \in (from + 1)..(to - 1) : i \notin at })
    IN  SubSeq(t, to - kept, to - 1)

SplitRuns(t, at) ==
    LET marks == RunStarts(at) \cup {0, Len(t) + 1}
    IN  [ from \in marks \ {Len(t) + 1} |->
            PieceOf(t, at, from,
                    CHOOSE to \in marks :
                        /\ to > from
                        /\ \A other \in marks : other > from => to <= other) ]

\* the positions of t whose character is one of . ! ?
SentenceEndsAt(t) == { i \in DOMAIN t : IsSentenceEnd(t[i]) }
\* the positions of t whose character is not a letter, a digit or _
NonWordCharsAt(t) == { i \in DOMAIN t : ~IsWordChar(t[i]) }

\* the text the scores are computed from
ScriptText(result) ==
    IF IsStr(result) THEN result.str
    ELSE IF Truthy(Get(result, KeyScript)) THEN Get(result, KeyScript).str
    ELSE <<>>

CallToActionWords ==
    { << "s", "u", "b", "s", "c", "r", "i", "b", "e" >>,
      << "f", "o", "l", "l", "o", "w" >>,
      << "l", "i", "k", "e" >> }

\* scriptText.split(" ").length
WordCount(t) == CountChar(t, " ") + 1

\* the pieces between runs of . ! ? that are not blank
SentenceCount(t) ==
    LET pieces == SplitRuns(t, SentenceEndsAt(t))
    IN  Cardinality({ i \in DOMAIN pieces : Len(Trim(pieces[i])) > 0 })

\* new Set(scriptText.toLowerCase().split(/\W+/)).size
UniqueWordCount(t) ==
    LET split == SplitRuns(ToLowerCase(t), NonWordCharsAt(t))
    IN  Cardinality({ split[i] : i \in DOMAIN split })

\* Math.max(0, 100 - Math.abs(words - expectedWords) / expectedWords * 100)
\* with expectedWords = scriptLength / 60 * 150 = 5 * scriptLength / 2
TimingScore(words, len) ==
    IF len = 0 THEN [n |-> 0, d |-> 1]
    ELSE [n |-> Max(0, 500 * len -
                       100 * Abs(2 * words - 5 * len)),
          d |-> 5 * len]

\* Math.max(0, 100 - Math.abs(avgWordsPerSentence - 15) * 5)
ClarityScore(words, sentences) ==
    IF sentences = 0 THEN [n |-> 100, d |-> 1]
    ELSE [n |-> Max(0, 100 * sentences - 5 * Abs(words - 15 * sentences)),
          d |-> sentences]

\* 70 + (hasQuestions ? 15 : 0) + (hasCTA ? 15 : 0)
EngagementScore(t, cta) ==
    70 + (IF CountChar(t, "?") > 0 THEN 15 ELSE 0) +
    (IF cta /\
        \E w \in CallToActionWords : Includes(ToLowerCase(t), w)
     THEN 15 ELSE 0)

\* CreativityScore without Math.min
CreativityScoreUncapped(words, unique) ==
    [n |-> 200 * unique, d |-> words]

\* Math.min(100, uniqueWords.size / words * 200)
CreativityScore(words, unique) ==
    [n |-> Min(100 * words, 200 * unique), d |-> words]

\* Math.round((timing + clarity + engagement + creativity) / 4)
OverallScore(timing, clarity, engagement, creativity) ==
    Round(timing.n * clarity.d * creativity.d +
          clarity.n * timing.d * creativity.d +
          engagement * timing.d * clarity.d * creativity.d +
          creativity.n * timing.d * clarity.d,
          4 * timing.d * clarity.d * creativity.d)

\* the argument of setScoreData
ScoreData(timing, clarity, engagement, creativity) ==
    [ overall |-> OverallScore(timing, clarity, engagement, creativity),
      creativity |-> Round(creativity.n, creativity.d),
      engagement |-> engagement,
      clarity |-> Round(clarity.n, clarity.d),
      timing |-> Round(timing.n, timing.d) ]

\* the scores of a text of that many words, sentences and unique words
ScoresOfCounts(words, sentences, unique, engagement, len) ==
    ScoreData(TimingScore(words, len), ClarityScore(words, sentences),
              engagement, CreativityScore(words, unique))

\* the scores of the text t
ScoresOf(t, len, cta) ==
    ScoresOfCounts(WordCount(t), SentenceCount(t), UniqueWordCount(t),
                   EngagementScore(t, cta), len)

\* the value calculateScores passes to setScoreData
calculateScores(S) ==
    ScoresOf(ScriptText(S.apiResults), S.scriptLength, S.ctaInclusion)

(***************************************************************************)
(* The effects.  R is the render an effect closes over, N the state its    *)
(* updates are applied to, P the render before R.                          *)
(***************************************************************************)
\* Snapshot without the conversation
SnapshotWithoutChat(R) ==
    [ currentStep |-> R.currentStep, selectedStyle |-> R.selectedStyle,
      customStyleName |-> R.customStyleName, keyword |-> R.keyword,
      scriptLength |-> R.scriptLength,
      selectedLanguage |-> R.selectedLanguage,
      selectedTone |-> R.selectedTone, ctaInclusion |-> R.ctaInclusion,
      chatMessages |-> <<>>, timestamp |-> PageLoadTime ]

Snapshot(R) ==
    [ currentStep |-> R.currentStep, selectedStyle |-> R.selectedStyle,
      customStyleName |-> R.customStyleName, keyword |-> R.keyword,
      scriptLength |-> R.scriptLength,
      selectedLanguage |-> R.selectedLanguage,
      selectedTone |-> R.selectedTone, ctaInclusion |-> R.ctaInclusion,
      chatMessages |-> R.chatMessages, timestamp |-> PageLoadTime ]

AutoSaveDeps(S) ==
    << S.isExpanded, S.currentStep, S.selectedStyle, S.customStyleName,
       S.keyword, S.scriptLength, S.selectedLanguage, S.selectedTone,
       S.ctaInclusion, S.chatMessages >>

\* AutoSaveEffect whose failure also sends the wizard back to the first step
AutoSaveEffectBlocking(N, R) ==
    IF ~R.isExpanded THEN N
    ELSE IF N.storage = QuotaExceeded
    THEN [N EXCEPT !.modalConfig = Notice("Auto-save Failed"),
                   !.currentStep = StepStyle]
    ELSE [N EXCEPT !.storage = Snapshot(R)]

AutoSaveEffect(N, R) ==
    IF ~R.isExpanded THEN N
    ELSE IF N.storage = QuotaExceeded
    THEN [N EXCEPT !.modalConfig = Notice("Auto-save Failed")]
    ELSE [N EXCEPT !.storage = Snapshot(R)]

\* RestoreEffect with age <= 3600000
RestoreEffectInclusive(N, R) ==
    IF R.isExpanded \/ N.storage \in { NULL, QuotaExceeded } THEN N
    ELSE IF N.storage = Unparsable
    THEN [N EXCEPT !.modalConfig = Notice("Restore Failed")]
    ELSE LET state == N.storage
         IN  IF state.timestamp = 0 THEN N
             ELSE IF PageLoadTime - state.timestamp <= FreshWindow
             THEN [setCurrentStep(N, state.currentStep) EXCEPT
                       !.selectedStyle = state.selectedStyle,
                       !.customStyleName = state.customStyleName,
                       !.keyword = state.keyword,
                       !.scriptLength = state.scriptLength,
                       !.selectedLanguage = state.selectedLanguage,
                       !.selectedTone = state.selectedTone,
                       !.ctaInclusion = state.ctaInclusion,
                       !.chatMessages = state.chatMessages,
                       !.hasUnsavedChanges = TRUE]
             ELSE N

RestoreEffect(N, R) ==
    IF R.isExpanded \/ N.storage \in { NULL, QuotaExceeded } THEN N
    ELSE IF N.storage = Unparsable
    THEN [N EXCEPT !.modalConfig = Notice("Restore Failed")]
    ELSE LET state == N.storage
         IN  IF state.timestamp = 0 THEN N
             ELSE IF PageLoadTime - state.timestamp < FreshWindow
             THEN [setCurrentStep(N, state.currentStep) EXCEPT
                       !.selectedStyle = state.selectedStyle,
                       !.customStyleName = state.customStyleName,
                       !.keyword = state.keyword,
                       !.scriptLength = state.scriptLength,
                       !.selectedLanguage = state.selectedLanguage,
                       !.selectedTone = state.selectedTone,
                       !.ctaInclusion = state.ctaInclusion,
                       !.chatMessages = state.chatMessages,
                       !.hasUnsavedChanges = TRUE]
             ELSE N

ScoreDeps(S) ==
    << S.apiResults, S.currentStep, S.scriptLength, S.ctaInclusion >>

ScoreEffect(N, R) ==
    IF Truthy(R.apiResults) /\ R.currentStep = StepResult
    THEN [N EXCEPT !.scoreData = calculateScores(R)]
    ELSE N

TriggerDeps(S) == << S.currentStep, S.apiResults, S.isLoading >>

TriggerEffect(N, R) ==
    IF R.currentStep = StepResult /\ ~Truthy(R.apiResults) /\ ~R.isLoading
    THEN fetchFinalScript(N)
    ELSE N

FirstQuestionDeps(S) ==
    << S.currentStep, Len(S.chatMessages), S.isLoading, S.chatMessages,
       S.keyword, S.selectedStyle, S.customStyleName, S.scriptLength,
       S.selectedTone, S.selectedLanguage >>

\* the cleanup of the previous run: isMounted = false
FirstQuestionCleanup(N) ==
    [N EXCEPT !.questionFetches =
                  [i \in DOMAIN @ |-> [@[i] EXCEPT !.isMounted = FALSE]],
              !.typing = IF @ # NULL /\ @.first
                         THEN [@ EXCEPT !.isMounted = FALSE] ELSE @]

FirstQuestionEffect(N, R) ==
    IF /\ R.currentStep = StepRefinement
       /\ Len(R.chatMessages) = 0
       /\ ~R.isLoading
       /\ ~N.hasAttemptedQuestionFetch
    THEN [N EXCEPT !.hasAttemptedQuestionFetch = TRUE,
                   !.isLoading = TRUE,
                   !.questionFetches = Append(@, [isMounted |-> TRUE])]
    ELSE N

KeyDownDeps(S) ==
    << S.showSkipConfirm, S.isExpanded, S.currentStep, S.userInput,
       S.apiResults >>

KeyDownEffect(N, R) == [N EXCEPT !.keyHandler = Closure(R)]

AutoSaveStep(P, R, mount) ==
    IF mount \/ AutoSaveDeps(P) # AutoSaveDeps(R)
    THEN AutoSaveEffect(R, R) ELSE R

RestoreStep(P, N, R, mount) ==
    IF mount \/ P.isExpanded # R.isExpanded
    THEN RestoreEffect(N, R) ELSE N

ScoreStep(P, N, R, mount) ==
    IF mount \/ ScoreDeps(P) # ScoreDeps(R)
    THEN ScoreEffect(N, R) ELSE N

TriggerStep(P, N, R, mount) ==
    IF mount \/ TriggerDeps(P) # TriggerDeps(R)
    THEN TriggerEffect(N, R) ELSE N

FirstQuestionStep(P, N, R, mount) ==
    IF mount THEN FirstQuestionEffect(N, R)
    ELSE IF FirstQuestionDeps(P) # FirstQuestionDeps(R)
    THEN FirstQuestionEffect(FirstQuestionCleanup(N), R)
    ELSE N

KeyDownStep(P, N, R, mount) ==
    IF mount \/ KeyDownDeps(P) # KeyDownDeps(R)
    THEN KeyDownEffect(N, R) ELSE N

\* one commit: the effects whose dependencies differ between P and R (all
\* of them when the component has just mounted), in the order of the source
RunEffects(P, R, mount) ==
    KeyDownStep(P,
      FirstQuestionStep(P,
        TriggerStep(P,
          ScoreStep(P,
            RestoreStep(P, AutoSaveStep(P, R, mount), R, mount),
            R, mount),
          R, mount),
        R, mount),
      R, mount)

\* the renders and effects that follow an event, until nothing changes
RECURSIVE Settle(_, _, _)
Settle(P, R, mount) ==
    LET N == RunEffects(P, R, mount)
    IN  IF N = R THEN R ELSE Settle(R, N, FALSE)

(***************************************************************************)
(* Initial state and actions.                                              *)
(***************************************************************************)
\* the page as first loaded in a tab with an empty session storage
Loaded == Settle(Mounted(NULL), Mounted(NULL), TRUE)

\* the component is in the state F
ComponentIs(F) ==
    /\ isExpanded = F.isExpanded
    /\ currentStep = F.currentStep
    /\ selectedStyle = F.selectedStyle
    /\ customStyleName = F.customStyleName
    /\ keyword = F.keyword
    /\ scriptLength = F.scriptLength
    /\ selectedLanguage = F.selectedLanguage
    /\ selectedTone = F.selectedTone
    /\ ctaInclusion = F.ctaInclusion
    /\ chatMessages = F.chatMessages
    /\ userInput = F.userInput
    /\ isTyping = F.isTyping
    /\ skipRefinement = F.skipRefinement
    /\ showSkipConfirm = F.showSkipConfirm
    /\ questionFetchFailed = F.questionFetchFailed
    /\ apiResults = F.apiResults
    /\ isLoading = F.isLoading
    /\ apiError = F.apiError
    /\ scoreData = F.scoreData
    /\ hasUnsavedChanges = F.hasUnsavedChanges
    /\ modalConfig = F.modalConfig
    /\ showSidePanel = F.showSidePanel
    /\ hasAttemptedQuestionFetch = F.hasAttemptedQuestionFetch
    /\ typing = F.typing
    /\ storage = F.storage
    /\ chatTimers = F.chatTimers
    /\ questionFetches = F.questionFetches
    /\ stepTimers = F.stepTimers
    /\ generations = F.generations
    /\ keyHandler = F.keyHandler

\* no call of the pipeline is followed step by step
NoCall == [pc |-> "none"]

Init ==
    /\ ComponentIs(Loaded)
    /\ call = NoCall
    /\ ended = NULL
    /\ applied = NULL

\* the state of the component
componentVars ==
    << isExpanded, currentStep, selectedStyle, customStyleName, keyword,
       scriptLength, selectedLanguage, selectedTone, ctaInclusion,
       chatMessages, userInput, isTyping, skipRefinement, showSkipConfirm,
       questionFetchFailed, apiResults, isLoading, apiError, scoreData,
       hasUnsavedChanges, modalConfig, showSidePanel,
       hasAttemptedQuestionFetch, typing,
       storage, chatTimers, questionFetches, stepTimers, generations,
       keyHandler >>

\* the next state of the component is F
Publish(F) ==
    /\ isExpanded' = F.isExpanded
    /\ currentStep' = F.currentStep
    /\ selectedStyle' = F.selectedStyle
    /\ customStyleName' = F.customStyleName
    /\ keyword' = F.keyword
    /\ scriptLength' = F.scriptLength
    /\ selectedLanguage' = F.selectedLanguage
    /\ selectedTone' = F.selectedTone
    /\ ctaInclusion' = F.ctaInclusion
    /\ chatMessages' = F.chatMessages
    /\ userInput' = F.userInput
    /\ isTyping' = F.isTyping
    /\ skipRefinement' = F.skipRefinement
    /\ showSkipConfirm' = F.showSkipConfirm
    /\ questionFetchFailed' = F.questionFetchFailed
    /\ apiResults' = F.apiResults
    /\ isLoading' = F.isLoading
    /\ apiError' = F.apiError
    /\ scoreData' = F.scoreData
    /\ hasUnsavedChanges' = F.hasUnsavedChanges
    /\ modalConfig' = F.modalConfig
    /\ showSidePanel' = F.showSidePanel
    /\ hasAttemptedQuestionFetch' = F.hasAttemptedQuestionFetch
    /\ typing' = F.typing
    /\ storage' = F.storage
    /\ chatTimers' = F.chatTimers
    /\ questionFetches' = F.questionFetches
    /\ stepTimers' = F.stepTimers
    /\ generations' = F.generations
    /\ keyHandler' = F.keyHandler

\* the next state is F
Commit(F) ==
    /\ Publish(F)
    /\ UNCHANGED << call, ended, applied >>

\* an event ran a handler that left S, and React settled
After(S) == Commit(Settle(Cur, S, FALSE))

\* the expanded wizard takes clicks: no modal lies over it
Clickable == isExpanded /\ ~modalConfig.show
\* the page of step s takes clicks
OnPage(s) == Clickable /\ currentStep = s
\* the refinement page under the skip dialog does not
ChatClickable == OnPage(StepRefinement) /\ ~showSkipConfirm

\* the asynchronous operations in flight: continuations of
\* handleChatResponse in any of their phases, first-question fetches and
\* generation calls
InFlight ==
    Len(chatTimers) + stepTimers + (IF typing # NULL THEN 1 ELSE 0) +
    Len(questionFetches) + Len(generations)

\* the bound on what the user starts
MayStart == InFlight < MaxInFlight

\* the bounds on the answers of the user
MayAnswer == Len(chatMessages) < MaxChat /\ MayStart

HandleExpand ==
    /\ ~isExpanded /\ ~modalConfig.show
    /\ After([Cur EXCEPT !.isExpanded = TRUE])

HandleStyleSelect(ids) ==
    /\ OnPage(StepStyle)
    /\ \E id \in ids :
         After([Cur EXCEPT !.selectedStyle = id])

\* the input shown while the style is "other"
EditCustomStyleName(texts) ==
    /\ OnPage(StepStyle) /\ selectedStyle = "other"
    /\ \E t \in texts :
         After([Cur EXCEPT !.customStyleName = t])

EditKeyword(texts) ==
    /\ OnPage(StepTopic)
    /\ \E t \in texts : After([Cur EXCEPT !.keyword = t])

EditTone(tones) ==
    /\ OnPage(StepSettings)
    /\ \E v \in tones : After([Cur EXCEPT !.selectedTone = v])

EditLanguage(languages) ==
    /\ OnPage(StepSettings)
    /\ \E v \in languages :
         After([Cur EXCEPT !.selectedLanguage = v])

EditScriptLength ==
    /\ OnPage(StepSettings)
    /\ \E n \in Lengths : After([Cur EXCEPT !.scriptLength = n])

ToggleCta ==
    /\ OnPage(StepSettings)
    /\ After([Cur EXCEPT !.ctaInclusion = ~ctaInclusion])

\* the Next button, disabled unless canProceed()
NextClick ==
    /\ Clickable /\ currentStep # StepResult
    /\ canProceed(Cur)
    /\ currentStep = StepSettings => MayStart
    /\ After(handleNext(Cur))

\* the Back button, disabled at Style
BackClick ==
    /\ Clickable /\ currentStep # StepResult
    /\ currentStep # StepStyle
    /\ After(handleBack(Cur))

CollapseClick ==
    /\ Clickable
    /\ After(handleCollapse(Cur))

ModalConfirm ==
    /\ modalConfig.show
    /\ After(IF modalConfig.type = "confirm" THEN CollapseConfirm(Cur)
             ELSE [Cur EXCEPT !.modalConfig = [@ EXCEPT !.show = FALSE]])

ModalCancel ==
    /\ modalConfig.show /\ modalConfig.type = "confirm"
    /\ After([Cur EXCEPT !.modalConfig = [@ EXCEPT !.show = FALSE]])

SkipClick ==
    /\ ChatClickable
    /\ After(handleSkipRefinement(Cur))

SkipDismiss ==
    /\ OnPage(StepRefinement) /\ showSkipConfirm
    /\ After([Cur EXCEPT !.showSkipConfirm = FALSE])

SkipConfirm ==
    /\ OnPage(StepRefinement) /\ showSkipConfirm
    /\ MayStart
    /\ After(confirmSkip(Cur))

EditReply ==
    /\ ChatClickable
    /\ \E t \in SessionTexts : After([Cur EXCEPT !.userInput = t])

\* the send button
SendReply ==
    /\ ChatClickable
    /\ Trim(userInput) # <<>>
    /\ MayAnswer
    /\ After(handleChatResponse(Cur, 0))

\* a button of an offered option
ChooseOption ==
    /\ ChatClickable
    /\ MayAnswer
    /\ \E i \in DOMAIN chatMessages :
         /\ chatMessages[i].options = "some"
         /\ After(handleChatResponse(Cur, i))

\* Ctrl+Enter or Cmd+Enter, outside the reply box
KeyCtrlEnter ==
    /\ ~keyHandler.showSkipConfirm
    /\ IF ~keyHandler.isExpanded
       THEN After([Cur EXCEPT !.isExpanded = TRUE])
       ELSE /\ canProceed(keyHandler) /\ keyHandler.currentStep < StepResult
            /\ keyHandler.currentStep = StepSettings => MayStart
            /\ After(handleNextOf(Cur, keyHandler.currentStep))

\* Enter while no input has the focus
KeyEnter ==
    /\ ~keyHandler.showSkipConfirm
    /\ IF ~keyHandler.isExpanded
       THEN After([Cur EXCEPT !.isExpanded = TRUE])
       ELSE /\ \/ keyHandler.currentStep = StepStyle /\ canProceed(keyHandler)
               \/ /\ keyHandler.currentStep > StepStyle
                  /\ canProceed(keyHandler)
                  /\ keyHandler.currentStep < StepResult
            /\ keyHandler.currentStep = StepSettings => MayStart
            /\ After(handleNextOf(Cur, keyHandler.currentStep))

\* Shift+Tab while no input has the focus
KeyShiftTab ==
    /\ ~keyHandler.showSkipConfirm
    /\ keyHandler.currentStep > StepStyle
    /\ After(handleBackOf(Cur, keyHandler.currentStep))

\* the 800 ms timer of handleChatResponse fires and calls fetchNextQuestion
ChatTimerFires ==
    \E i \in DOMAIN chatTimers :
      /\ chatTimers[i].phase = "delay"
      /\ After([Cur EXCEPT !.chatTimers[i].phase = "fetch"])

\* fetchNextQuestion of a continuation resolves
NextQuestionArrives ==
    \E i \in DOMAIN chatTimers, r \in QuestionResponses :
      /\ chatTimers[i].phase = "fetch"
      /\ After(ChatContinuation([Cur EXCEPT !.chatTimers = RemoveAt(@, i)],
                                chatTimers[i], r))

\* fetchNextQuestion of the first-question effect resolves
FirstQuestionArrives ==
    \E i \in DOMAIN questionFetches, r \in QuestionResponses :
      After(FirstQuestionContinuation(
                [Cur EXCEPT !.questionFetches = RemoveAt(@, i)],
                questionFetches[i], r))

\* what fetchNextQuestion returns from its catch block, whatever failed:
\* { question: null, options: [] }
QuestionFetchFailure == [question |-> FALSE, options |-> "empty"]

\* NextQuestionArrives where the fetch failed or timed out
NextQuestionFails ==
    \E i \in DOMAIN chatTimers :
      /\ chatTimers[i].phase = "fetch"
      /\ After(ChatContinuation([Cur EXCEPT !.chatTimers = RemoveAt(@, i)],
                                chatTimers[i], QuestionFetchFailure))

\* FirstQuestionArrives where the fetch failed or timed out
FirstQuestionFails ==
    \E i \in DOMAIN questionFetches :
      After(FirstQuestionContinuation(
                [Cur EXCEPT !.questionFetches = RemoveAt(@, i)],
                questionFetches[i], QuestionFetchFailure))

\* the typing simulation reaches the end of its text
TypingEnds ==
    /\ typing # NULL
    /\ After(TypingFinished(Cur))

\* the 1500 ms timer set by the closing acknowledgement fires
StepTimerFires ==
    /\ stepTimers > 0
    /\ After(setCurrentStep([Cur EXCEPT !.stepTimers = @ - 1], StepResult))

GenerationSucceeds ==
    \E i \in DOMAIN generations :
      After(GenerationResolved([Cur EXCEPT !.generations = RemoveAt(@, i)],
                               generations[i]))

GenerationFails ==
    \E i \in DOMAIN generations, e \in FailureInputs :
      After(GenerationRejected([Cur EXCEPT !.generations = RemoveAt(@, i)], e))

\* "Regenerate" of the result menu
RegenerateClick ==
    /\ OnPage(StepResult) /\ apiResults # NULL /\ ~isLoading
    /\ ~showSidePanel
    /\ MayStart
    /\ After(fetchFinalScript([Cur EXCEPT !.apiResults = NULL,
                                          !.scoreData = NULL]))

\* the page is loaded again in the same tab, elapsed ms after the last save
Reload ==
    \E elapsed \in ElapsedTimes :
      LET kept == IF "timestamp" \notin DOMAIN storage THEN storage
                  ELSE [storage EXCEPT !.timestamp = PageLoadTime - elapsed]
      IN  /\ elapsed <= PageLoadTime
          /\ Commit(Settle(Mounted(kept), Mounted(kept), TRUE))

Next ==
    \/ HandleExpand
    \/ HandleStyleSelect(SessionStyleIds)
    \/ EditKeyword(SessionTexts)
    \/ EditTone(SessionTones)
    \/ EditLanguage(SessionLanguages)
    \/ NextClick
    \/ BackClick
    \/ CollapseClick
    \/ ModalConfirm
    \/ ModalCancel
    \/ SkipClick
    \/ SkipDismiss
    \/ SkipConfirm
    \/ EditReply
    \/ SendReply
    \/ ChooseOption
    \/ KeyCtrlEnter
    \/ KeyEnter
    \/ KeyShiftTab
    \/ ChatTimerFires
    \/ NextQuestionArrives
    \/ FirstQuestionArrives
    \/ TypingEnds
    \/ StepTimerFires
    \/ GenerationSucceeds
    \/ GenerationFails
    \/ RegenerateClick
    \/ Reload

Spec == Init /\ [][Next]_vars

\* the form on its own: every input of the user, a service that delivers
\* the first question at most
NextForm ==
    \/ HandleExpand
    \/ HandleStyleSelect(StyleIds)
    \/ EditCustomStyleName(Texts)
    \/ EditKeyword(Texts)
    \/ EditTone(ToneOptions)
    \/ EditLanguage(LanguageOptions)
    \/ EditScriptLength
    \/ ToggleCta
    \/ NextClick
    \/ BackClick
    \/ CollapseClick
    \/ ModalConfirm
    \/ ModalCancel
    \/ KeyCtrlEnter
    \/ KeyEnter
    \/ KeyShiftTab
    \/ FirstQuestionArrives

SpecForm == Init /\ [][NextForm]_vars

(***************************************************************************)
(* The request pipeline, step by step: one call of fetchWithRetry.         *)
(*                                                                         *)
(* call.i is the loop variable, call.pc the await the call stands at       *)
(* ("sleep": the backoff, "fetch": the request), call.attempts the number  *)
(* of requests issued, call.delays the backoffs slept so far,              *)
(* call.responses the statuses received and call.rejects the number of     *)
(* requests that failed below HTTP.  call.aborted is signal.aborted of     *)
(* the AbortController of the caller.                                      *)
(***************************************************************************)
\* Math.pow(2, n)
RECURSIVE Pow2(_)
Pow2(n) == IF n <= 0 THEN 1 ELSE 2 * Pow2(n - 1)

\* Math.min(1000 * Math.pow(2, i - 1), 8000) without the cap
BackoffUncapped(i) == 1000 * Pow2(i - 1)

\* Math.min(1000 * Math.pow(2, i - 1), 8000)
Backoff(i) == Min(1000 * Pow2(i - 1), 8000)

\* what fetch rejects with
AbortError == [name |-> "AbortError", message |-> AbortMessage]
FailedToFetch ==
    [name |-> "TypeError",
     message |-> << "F", "a", "i", "l", "e", "d" >>]

\* the call at its first await: fetch of attempt 0; timeout is the delay of
\* the timer of the caller that aborts the signal (0: no caller)
StartCall(caller, maxRetries, timeout) ==
    [ caller |-> caller, maxRetries |-> maxRetries, timeout |-> timeout,
      i |-> 0, pc |-> "fetch",
      aborted |-> FALSE, abortedIn |-> "none", attempts |-> 1,
      delays |-> <<>>, responses |-> <<>>, rejects |-> 0,
      response |-> NULL, error |-> NULL,
      rest |-> <<>>, acc |-> <<>>, held |-> FALSE, chunks |-> 0,
      splitInside |-> FALSE, updateScheduled |-> FALSE ]

\* continue: the next iteration of the loop up to its await sleep(backoff)
RetryContinue(c) ==
    [c EXCEPT !.i = @ + 1, !.pc = "sleep",
              !.delays = Append(@, Backoff(c.i + 1))]

\* RetryOnResponse with the test i <= maxRetries: one attempt too many
RetryOnResponseOnceMore(c, r) ==
    LET d == [c EXCEPT !.responses = Append(@, r.status)]
    IN  IF r.status >= 500 /\ c.i <= c.maxRetries
        THEN RetryContinue(d)
        ELSE [d EXCEPT !.pc = "returned", !.response = r]

\* fetch resolved with the response r
RetryOnResponse(c, r) ==
    LET d == [c EXCEPT !.responses = Append(@, r.status)]
    IN  IF r.status >= 500 /\ c.i < c.maxRetries
        THEN RetryContinue(d)
        ELSE [d EXCEPT !.pc = "returned", !.response = r]

\* fetch rejected with the error e: the catch block
RetryOnReject(c, e) ==
    LET d == [c EXCEPT !.rejects = IF e.name = "AbortError" THEN @
                                   ELSE @ + 1]
    IN  IF e.name # "AbortError" /\ c.i < c.maxRetries
        THEN RetryContinue(d)
        ELSE [d EXCEPT !.pc = "thrown", !.error = e]

\* RetryAfterSleep with a fetch that does not look at the signal
RetryAfterSleepUnchecked(c) ==
    [c EXCEPT !.pc = "fetch", !.attempts = @ + 1]

\* sleep resolved: setRetryCount(i), then fetch, which rejects at once when
\* the signal is aborted already
RetryAfterSleep(c) ==
    IF c.aborted THEN RetryOnReject(c, AbortError)
    ELSE [c EXCEPT !.pc = "fetch", !.attempts = @ + 1]

\* controller.abort(): a request in flight rejects, a sleep goes on
RetryOnAbort(c) ==
    LET d == [c EXCEPT !.aborted = TRUE, !.abortedIn = c.pc]
    IN  IF c.pc = "fetch" THEN RetryOnReject(d, AbortError) ELSE d

\* the responses of the service to fetchWithRetry on its own
RetryStatuses == {200, 404, 500}
PlainResponse(status) ==
    [status |-> status, statusText |-> <<>>, ctype |-> "text/plain",
     body |-> <<>>]

\* fetchWithRetry(url, options, maxRetries) has been called
InitRetry ==
    /\ ComponentIs(Loaded)
    /\ \E m \in 0..MaxRetries : call = StartCall("fetchWithRetry", m, 0)
    /\ ended = NULL
    /\ applied = NULL

RetryBackoffEnds ==
    /\ call.pc = "sleep"
    /\ call' = RetryAfterSleep(call)
    /\ UNCHANGED << ended, applied >>
    /\ UNCHANGED componentVars

RetryResponseArrives ==
    /\ call.pc = "fetch"
    /\ \E status \in RetryStatuses :
         call' = RetryOnResponse(call, PlainResponse(status))
    /\ UNCHANGED << ended, applied >>
    /\ UNCHANGED componentVars

RetryFetchRejects ==
    /\ call.pc = "fetch"
    /\ call' = RetryOnReject(call, FailedToFetch)
    /\ UNCHANGED << ended, applied >>
    /\ UNCHANGED componentVars

RetrySignalAborts ==
    /\ call.pc \in {"sleep", "fetch"}
    /\ ~call.aborted
    /\ call' = RetryOnAbort(call)
    /\ UNCHANGED << ended, applied >>
    /\ UNCHANGED componentVars

NextRetry ==
    \/ RetryBackoffEnds
    \/ RetryResponseArrives
    \/ RetryFetchRejects
    \/ RetrySignalAborts

SpecRetry == InitRetry /\ [][NextRetry]_vars

(***************************************************************************)
(* The request pipeline, step by step: one call of                         *)
(* fetchFinalScriptRef.current on the Result page, from fetchWithRetry to  *)
(* the finally block.  After fetchWithRetry has returned, call.pc is the   *)
(* await the caller stands at: "errorBody" (response.text() of a response  *)
(* that is not ok), "stream" (reader.read()), "json" (response.json()) or  *)
(* "text" (response.text()).  call.rest is what the stream has not         *)
(* delivered yet, call.acc the text accumulated, call.held the state of    *)
(* the decoder and call.updateScheduled the 100 ms timer of the partial    *)
(* publication.  ended keeps how the last call ended, with the text its    *)
(* timer will publish when it is still pending.                            *)
(***************************************************************************)
\* fetchWithRetry(url, options, 2)
GenerationRetries == 2
\* setTimeout(() => controller.abort(), 90000)
GenerationTimeout == 90000

Bytes502 == << "H", "T", "T", "P", " ", "5", "0", "2" >>
\* {"result":"x"}
BytesResultX ==
    << "{", "\"", "r", "e", "s", "u", "l", "t", "\"", ":", "\"", "x",
       "\"", "}" >>
\* a blank, the two bytes of U+00E9 and a blank
BytesAccented == << " ", LeadByte, ContinuationByte, " " >>
\* Hi?
BytesHi == << "H", "i", "?" >>

\* the responses of the service to a generation request
CallResponses ==
    { [status |-> 500, statusText |-> <<>>, ctype |-> "text/plain",
       body |-> <<>>],
      [status |-> 404, statusText |-> <<>>, ctype |-> "text/plain",
       body |-> <<>>],
      [status |-> 404, statusText |-> <<>>, ctype |-> "text/plain",
       body |-> Bytes502],
      [status |-> 200, statusText |-> <<>>, ctype |-> "text/event-stream",
       body |-> BytesResultX],
      [status |-> 200, statusText |-> <<>>, ctype |-> "text/event-stream",
       body |-> BytesAccented],
      [status |-> 200, statusText |-> <<>>, ctype |-> "application/json",
       body |-> BytesResultX],
      [status |-> 200, statusText |-> <<>>, ctype |-> "text/plain",
       body |-> BytesHi] }

\* response.ok
Ok(r) == r.status >= 200 /\ r.status <= 299

\* response.text(): the whole body decoded
BodyText(r) ==
    LET d == Decode(r.body, FALSE)
    IN  d.text \o (IF d.held THEN << ReplacementChar >> ELSE <<>>)

\* the caller after fetchWithRetry has returned: up to its next await
AfterFetchWithRetry(c) ==
    IF c.pc # "returned" THEN c
    ELSE IF ~Ok(c.response) THEN [c EXCEPT !.pc = "errorBody"]
    ELSE IF c.response.ctype = "text/event-stream"
    THEN [c EXCEPT !.pc = "stream", !.rest = c.response.body]
    ELSE IF c.response.ctype = "application/json"
    THEN [c EXCEPT !.pc = "json"]
    ELSE [c EXCEPT !.pc = "text"]

\* a session saved on the Result page
StoredAtResult ==
    [ currentStep |-> StepResult, selectedStyle |-> "meme",
      customStyleName |-> <<>>, keyword |-> << "k" >>, scriptLength |-> 45,
      selectedLanguage |-> "English", selectedTone |-> "Casual",
      ctaInclusion |-> FALSE, chatMessages |-> <<>>,
      timestamp |-> PageLoadTime ]

\* the page loaded over that session: the restore effect sets step 4 and the
\* trigger effect calls fetchFinalScriptRef.current
LoadedAtResult ==
    Settle(Mounted(StoredAtResult), Mounted(StoredAtResult), TRUE)

InitCall ==
    /\ ComponentIs(LoadedAtResult)
    /\ call = StartCall("fetchFinalScript", GenerationRetries,
                   GenerationTimeout)
    /\ ended = NULL
    /\ applied = NULL

\* the number of calls that have ended
EndedCalls == IF ended = NULL THEN 0 ELSE ended.n

\* how the call c ended
Ended(c, final, error) ==
    [ n |-> EndedCalls + 1, final |-> final, error |-> error,
      maxRetries |-> c.maxRetries, attempts |-> c.attempts,
      responses |-> c.responses, abortedIn |-> c.abortedIn,
      streamed |-> c.pc = "stream",
      body |-> IF c.pc = "stream" THEN c.response.body ELSE <<>>,
      acc |-> c.acc, splitInside |-> c.splitInside,
      updateScheduled |-> c.updateScheduled ]

\* the component F has settled after n calls have ended: the call it is
\* loading with, followed step by step while n < MaxCalls
CallOf(F, c, n) ==
    IF Len(F.generations) = 0 THEN NoCall
    ELSE IF c.pc = "none" /\ n < MaxCalls
    THEN StartCall("fetchFinalScript", GenerationRetries,
                   GenerationTimeout)
    ELSE c

\* the call goes on, the component does not see it
CallBecomes(c) ==
    /\ call' = c
    /\ UNCHANGED << ended, applied >>
    /\ UNCHANGED componentVars

\* the call has ended and left the component in S: React settles
CallEnded(S, final, error) ==
    /\ Publish(S)
    /\ ended' = Ended(call, final, error)
    /\ call' = CallOf(S, NoCall, EndedCalls + 1)
    /\ UNCHANGED applied

\* the call returns final: setApiResults(final), then the finally block
CallReturns(final) ==
    CallEnded(Settle(Cur, [Cur EXCEPT !.apiResults = final,
                                      !.isLoading = FALSE,
                                      !.generations = Tail(@)], FALSE),
              final, NULL)

\* the call throws: the catch block, then the finally block
CallThrows(thrown) ==
    CallEnded(Settle(Cur, GenerationRejected(
                              [Cur EXCEPT !.generations = Tail(@)], thrown),
                     FALSE),
              NULL, createApiError(thrown))

InCall == call.pc # "none" /\ call.caller = "fetchFinalScript"

CallBackoffEnds ==
    /\ InCall /\ call.pc = "sleep"
    /\ CallBecomes(RetryAfterSleep(call))

CallResponseArrives ==
    /\ InCall /\ call.pc = "fetch"
    /\ \E r \in CallResponses : CallBecomes(RetryOnResponse(call, r))

CallFetchRejects ==
    /\ InCall /\ call.pc = "fetch"
    /\ CallBecomes(RetryOnReject(call, FailedToFetch))

\* await fetchWithRetry(...) resumes the caller with the response
CallerResumes ==
    /\ InCall /\ call.pc = "returned"
    /\ CallBecomes(AfterFetchWithRetry(call))

\* the caller catches what was thrown, with navigator.onLine as it is then
CallerCatches ==
    /\ InCall /\ call.pc = "thrown"
    /\ \E online \in BOOLEAN :
         CallThrows([name |-> call.error.name,
                     message |-> call.error.message, online |-> online])

\* response.text().catch(() => "") of a response that is not ok resolves
CallErrorBodyArrives ==
    /\ InCall /\ call.pc = "errorBody"
    /\ CallBecomes([call EXCEPT
           !.pc = "thrown",
           !.error = [name |-> "Error",
                      message |-> HttpErrorMessage(call.response.status,
                                                   call.response.statusText,
                                                   BodyText(call.response))]])

\* ChunkRead with decoder.decode(value): a sequence opened at the end of a
\* chunk is not kept for the next chunk and decodes to U+FFFD
ChunkReadStateless(c, n, d) ==
    [c EXCEPT !.rest = SubSeq(@, n + 1, Len(@)),
              !.acc = @ \o d.text \o
                      (IF d.held THEN << ReplacementChar >> ELSE <<>>),
              !.held = FALSE,
              !.chunks = @ + 1,
              !.splitInside = @ \/ (d.held /\ n < Len(c.rest)),
              !.updateScheduled = TRUE]

\* reader.read() resolves with a chunk: any part of what is left, all of
\* it when the chunk is the last the bound allows
ChunkRead(c, n, d) ==
    [c EXCEPT !.rest = SubSeq(@, n + 1, Len(@)),
              !.acc = @ \o d.text,
              !.held = d.held,
              !.chunks = @ + 1,
              !.splitInside = @ \/ (d.held /\ n < Len(c.rest)),
              !.updateScheduled = TRUE]

CallChunkArrives ==
    /\ InCall /\ call.pc = "stream"
    /\ \E n \in 1..Len(call.rest) :
         /\ (call.chunks + 1 = MaxChunks => n = Len(call.rest))
         /\ CallBecomes(ChunkRead(call, n,
                                  Decode(SubSeq(call.rest, 1, n),
                                         call.held)))

\* reader.read() resolves with done
CallStreamEnds ==
    /\ InCall /\ call.pc = "stream" /\ call.rest = <<>>
    /\ CallReturns(normalizeResult(safeJsonParse(Trim(call.acc))))

\* JSON.parse accepts t: what a text parses to is never the text itself
IsJson(t) == safeJsonParse(t) # Str(t)

\* response.json() resolves, or rejects when the body is not JSON
CallJsonArrives ==
    /\ InCall /\ call.pc = "json"
    /\ IF IsJson(BodyText(call.response))
       THEN CallReturns(normalizeResult(
                           safeJsonParse(BodyText(call.response))))
       ELSE CallBecomes([call EXCEPT
               !.pc = "thrown",
               !.error = [name |-> "SyntaxError",
                          message |-> << "J", "S", "O", "N" >>]])

\* response.text() resolves
CallTextArrives ==
    /\ InCall /\ call.pc = "text"
    /\ CallReturns(normalizeResult(safeJsonParse(BodyText(call.response))))

\* controller.abort() while the caller awaits: a read of the stream or of
\* the body in flight rejects with an AbortError; the read of the body of
\* a response that is not ok has .catch(() => ""), and the error thrown is
\* the HTTP error with an empty errText
CallerOnAbort(c) ==
    [c EXCEPT !.aborted = TRUE, !.abortedIn = c.pc, !.pc = "thrown",
              !.error = IF c.pc = "errorBody"
                        THEN [name |-> "Error",
                              message |->
                                  HttpErrorMessage(c.response.status,
                                                   c.response.statusText,
                                                   <<>>)]
                        ELSE AbortError]

\* the 90 s timer fires: controller.abort()
CallTimeoutFires ==
    /\ InCall /\ ~call.aborted
    /\ call.pc \in {"sleep", "fetch", "errorBody", "stream", "json", "text"}
    /\ CallBecomes(IF call.pc \in {"sleep", "fetch"}
                   THEN RetryOnAbort(call)
                   ELSE CallerOnAbort(call))

\* the 100 ms timer of the stream being read fires: setApiResults(acc)
PartialPublished ==
    /\ InCall /\ call.updateScheduled
    /\ Publish(Settle(Cur, [Cur EXCEPT !.apiResults = Str(call.acc)], FALSE))
    /\ call' = [call EXCEPT !.updateScheduled = FALSE]
    /\ UNCHANGED << ended, applied >>

\* the 100 ms timer of the call that has ended fires: setApiResults(acc)
LatePublished ==
    /\ ended # NULL /\ ended.updateScheduled
    /\ Publish(Settle(Cur, [Cur EXCEPT !.apiResults = Str(ended.acc)],
                      FALSE))
    /\ call' = IF Len(generations') = 0 THEN NoCall
               ELSE IF call.pc = "none" /\ EndedCalls < MaxCalls
               THEN StartCall("fetchFinalScript", GenerationRetries,
                              GenerationTimeout)
               ELSE call
    /\ ended' = [ended EXCEPT !.updateScheduled = FALSE]
    /\ UNCHANGED applied

NextCall ==
    \/ CallBackoffEnds
    \/ CallResponseArrives
    \/ CallFetchRejects
    \/ CallerResumes
    \/ CallerCatches
    \/ CallErrorBodyArrives
    \/ CallChunkArrives
    \/ CallStreamEnds
    \/ CallJsonArrives
    \/ CallTextArrives
    \/ CallTimeoutFires
    \/ PartialPublished
    \/ LatePublished

SpecCall == InitCall /\ [][NextCall]_vars

(***************************************************************************)
(* The pure functions of the pipeline applied to inputs: createApiError,   *)
(* normalizeResult and calculateScores.  applied is the last application:  *)
(* the function, its input and its output.                                 *)
(***************************************************************************)
\* what the generation call throws for a response that is not ok, with the
\* status of the response and navigator.onLine when it is classified
HttpFailure(status, errText, online) ==
    [ name |-> "Error", message |-> HttpErrorMessage(status, <<>>, errText),
      online |-> online, status |-> status ]

ErrorInputs ==
    { HttpFailure(status, errText, online) :
          status \in {400, 404, 500, 503}, errText \in {<<>>, Bytes502},
          online \in BOOLEAN }
    \cup
    { [ name |-> e.name, message |-> e.message, online |-> online,
        status |-> 0 ] :
          e \in {AbortError, FailedToFetch}, online \in BOOLEAN }

Property(key, value) == << [k |-> key, v |-> value] >>

TextX == << "x" >>
TextY == << "y" >>
TextZ == << "z" >>

\* the values normalizeResult is applied to
ResultInputs ==
    { NULL, Num(5), Str(TextX), Str(<<>>),
      Obj(<<>>),
      Obj(Property(KeyResult, Str(TextX))),
      Obj(Property(KeyResult, Obj(Property(KeyScript, Str(TextY))))),
      Obj(Property(KeyResult, Obj(Property(KeyContent, Str(TextZ))))),
      Obj(Property(KeyResult, NULL)),
      Obj(Property(KeyResult, Num(5))),
      Obj(Property(KeyScript, Str(TextY))),
      Obj(Property(KeyContent, Str(TextZ))) }

\* n times the word "a", with sep between two of them
Repeated(n, sep) ==
    [ i \in 1..(2 * n - 1) |-> IF i % 2 = 1 THEN "a" ELSE sep ]

\* 75 words on one line, and on two lines
Words75 == Repeated(75, " ")
Words75TwoLines == Repeated(40, " ") \o << "\n" >> \o Repeated(35, " ")
\* Like it. Follow me!
TextCallToAction ==
    << "L", "i", "k", "e", " ", "i", "t", ".", " ",
       "F", "o", "l", "l", "o", "w", " ", "m", "e", "!" >>

\* the results calculateScores is applied to
ScoredResults ==
    { Obj(Property(KeyScript, Str(<<>>))),
      Obj(Property(KeyContent, Str(TextZ))),
      Obj(Property(KeyScript, Str(Words75))),
      Obj(Property(KeyScript, Str(Words75TwoLines))),
      Obj(Property(KeyScript, Str(TextCallToAction))),
      Obj(Property(KeyScript, Str(BytesHi))),
      Str(Repeated(3, " ")),
      Str(TextX) }

\* const scriptSegments = [15, 30, 45, 60, 90, 120, 180]
scriptSegments == {15, 30, 45, 60, 90, 120, 180}

\* a function and the input it is about to be applied to
Pending(fn, input) == [fn |-> fn, input |-> input, output |-> NULL]

\* calculateScores reads the result, the duration and the switch of a render
InitFunctions ==
    /\ ComponentIs(Loaded)
    /\ call = NoCall
    /\ ended = NULL
    /\ applied \in
         { Pending("createApiError", e) : e \in ErrorInputs }
         \cup { Pending("normalizeResult", v) : v \in ResultInputs }
         \cup { Pending("calculateScores",
                        [apiResults |-> r, scriptLength |-> len,
                         ctaInclusion |-> cta]) :
                    r \in ScoredResults, len \in scriptSegments,
                    cta \in BOOLEAN }

ApplyCreateApiError ==
    /\ applied.fn = "createApiError"
    /\ applied.output = NULL
    /\ applied' = [applied EXCEPT !.output = createApiError(applied.input)]
    /\ UNCHANGED << call, ended >>
    /\ UNCHANGED componentVars

ApplyNormalizeResult ==
    /\ applied.fn = "normalizeResult"
    /\ applied.output = NULL
    /\ applied' = [applied EXCEPT
                    !.output = [value |-> normalizeResult(applied.input)]]
    /\ UNCHANGED << call, ended >>
    /\ UNCHANGED componentVars

ApplyCalculateScores ==
    /\ applied.fn = "calculateScores"
    /\ applied.output = NULL
    /\ applied' = [applied EXCEPT !.output = calculateScores(applied.input)]
    /\ UNCHANGED << call, ended >>
    /\ UNCHANGED componentVars

NextFunctions ==
    \/ ApplyCreateApiError
    \/ ApplyNormalizeResult
    \/ ApplyCalculateScores

SpecFunctions == InitFunctions /\ [][NextFunctions]_vars

(***************************************************************************)
(* The session from the first page to the result with a service that       *)
(* answers: the user fills in the pages, goes forward and answers in the   *)
(* chat; every fetch is answered and every timer fires, which is the weak  *)
(* fairness of the steps that are not the user's.                          *)
(***************************************************************************)
\* the service answers the first-question fetch with a question
FirstQuestionAnswered ==
    \E i \in DOMAIN questionFetches :
      After(FirstQuestionContinuation(
                [Cur EXCEPT !.questionFetches = RemoveAt(@, i)],
                questionFetches[i],
                [question |-> TRUE, options |-> "some"]))

NextLive ==
    \/ HandleExpand
    \/ HandleStyleSelect(SessionStyleIds)
    \/ EditKeyword(SessionTexts)
    \/ EditTone(SessionTones)
    \/ EditLanguage(SessionLanguages)
    \/ EditScriptLength
    \/ ToggleCta
    \/ NextClick
    \/ BackClick
    \/ EditReply
    \/ SendReply
    \/ FirstQuestionAnswered
    \/ ChatTimerFires
    \/ NextQuestionArrives
    \/ TypingEnds
    \/ StepTimerFires

SpecLive ==
    /\ Init
    /\ [][NextLive]_vars
    /\ WF_vars(FirstQuestionAnswered)
    /\ WF_vars(ChatTimerFires)
    /\ WF_vars(NextQuestionArrives)
    /\ WF_vars(TypingEnds)
    /\ WF_vars(StepTimerFires)

(***************************************************************************)
(* The wizard over a session storage that fails: the page is loaded with   *)
(* an empty storage, with a storage whose setItem throws, or over an item  *)
(* that is not JSON.                                                       *)
(***************************************************************************)
StorageStates == { NULL, QuotaExceeded, Unparsable }

InitStorage ==
    /\ \E st \in StorageStates :
         ComponentIs(Settle(Mounted(st), Mounted(st), TRUE))
    /\ call = NoCall
    /\ ended = NULL
    /\ applied = NULL

NextStorage ==
    \/ HandleExpand
    \/ HandleStyleSelect(SessionStyleIds)
    \/ EditKeyword(SessionTexts)
    \/ EditTone(SessionTones)
    \/ EditLanguage(SessionLanguages)
    \/ NextClick
    \/ BackClick
    \/ CollapseClick
    \/ ModalConfirm
    \/ ModalCancel
    \/ SkipClick
    \/ SkipDismiss
    \/ SkipConfirm
    \/ KeyCtrlEnter
    \/ KeyShiftTab
    \/ FirstQuestionArrives
    \/ Reload

SpecStorage == InitStorage /\ [][NextStorage]_vars

(***************************************************************************)
(* A long refinement chat.  The session was saved in Refinement with a     *)
(* history of LongChat or LongChat - 1 turns: the user wrote first, the    *)
(* assistant asked with options, the user chose one of them, and so on;    *)
(* the page is loaded over it.  Here the user answers as fast as the page  *)
(* lets them: up to MaxPending continuations, typings and timers at once.  *)
(***************************************************************************)
LongChat == 48
MaxTurns == 51
MaxPending == 2

\* a question of the assistant with the options it offers
QuestionTurn(options) ==
    [type |-> "ai", content |-> "question", options |-> options]

\* n turns; the options of the answered questions were cleared by the click
History(n) ==
    [ i \in 1..n |->
        IF i % 2 = 1 THEN UserTurn
        ELSE QuestionTurn(IF i = n THEN "some" ELSE "none") ]

\* a session saved in Refinement with n turns
StoredInChat(n) ==
    [ currentStep |-> StepRefinement, selectedStyle |-> "meme",
      customStyleName |-> <<>>, keyword |-> << "k" >>, scriptLength |-> 45,
      selectedLanguage |-> "English", selectedTone |-> "Casual",
      ctaInclusion |-> FALSE, chatMessages |-> History(n),
      timestamp |-> PageLoadTime ]

\* the page loaded over that session: the restore effect sets step 3.5 and
\* the history, and the first-question effect finds the history not empty
LoadedInChat(n) ==
    Settle(Mounted(StoredInChat(n)), Mounted(StoredInChat(n)), TRUE)

InitChat ==
    /\ \E n \in { LongChat - 1, LongChat } : ComponentIs(LoadedInChat(n))
    /\ call = NoCall
    /\ ended = NULL
    /\ applied = NULL

\* the bounds on the answers of the user in the long chat
MayReply == Len(chatMessages) < MaxTurns /\ InFlight < MaxPending

\* the send button, or Enter in the reply box: neither is disabled while a
\* typing runs or a fetch is pending
ChatSend ==
    /\ ChatClickable
    /\ Trim(userInput) # <<>>
    /\ MayReply
    /\ After(handleChatResponse(Cur, 0))

\* a button of an offered option, whenever it is shown
ChatChoose ==
    /\ ChatClickable
    /\ MayReply
    /\ \E i \in DOMAIN chatMessages :
         /\ chatMessages[i].options = "some"
         /\ After(handleChatResponse(Cur, i))

NextChat ==
    \/ HandleExpand
    \/ EditReply
    \/ ChatSend
    \/ ChatChoose
    \/ ChatTimerFires
    \/ NextQuestionArrives
    \/ TypingEnds
    \/ StepTimerFires

SpecChat == InitChat /\ [][NextChat]_vars

(***************************************************************************)
(* The result page: the side panel, regenerateWithEdit and the error      *)
(* panel, from a page loaded over a session that was saved at Result.      *)
(***************************************************************************)
\* what the user writes into the "Improve with AI" request: blank or not
RegenerateRequests == { << " " >>, << "x" >> }

\* the result is shown: neither the loading view nor the error panel
ResultShown ==
    OnPage(StepResult) /\ ~isLoading /\ apiError = NULL /\ apiResults # NULL

\* the error panel is shown: isLoading ? ... : apiError ? panel : ...
ErrorDisplayed ==
    isExpanded /\ currentStep = StepResult /\ ~isLoading /\ apiError # NULL

\* the "Retry" button of the error panel is rendered
RetryOffered == ErrorDisplayed /\ apiError.retryable

\* the "Back" button of the error panel is rendered
ErrorBackOffered == ErrorDisplayed /\ apiError.retryable

\* the Back/Next bar below the pages is rendered
NavigationBarShown == isExpanded /\ currentStep # StepResult

\* a button that goes back is rendered
BackOffered == ErrorBackOffered \/ NavigationBarShown

\* "Improve with AI" of the result menu opens the side panel
ImproveClick ==
    /\ ResultShown /\ ~showSidePanel
    /\ After([Cur EXCEPT !.showSidePanel = TRUE])

\* "Cancel" of the side panel
SidePanelCancel ==
    /\ ResultShown /\ showSidePanel
    /\ After([Cur EXCEPT !.showSidePanel = FALSE])

\* Enter or the send button of the side panel, over the request written
RegenerateWithEditClick ==
    \E request \in RegenerateRequests :
      /\ ResultShown /\ showSidePanel
      /\ MayStart
      /\ After(regenerateWithEdit(Cur, request))

\* "Retry" of the error panel
RetryClick ==
    /\ RetryOffered /\ ~modalConfig.show
    /\ MayStart
    /\ After(fetchFinalScript(Cur))

\* "Back" of the error panel: setApiError(null), then handleBack()
ErrorBackClick ==
    /\ ErrorBackOffered /\ ~modalConfig.show
    /\ After(handleBack([Cur EXCEPT !.apiError = NULL]))

InitResult ==
    /\ ComponentIs(LoadedAtResult)
    /\ call = NoCall
    /\ ended = NULL
    /\ applied = NULL

NextResult ==
    \/ HandleExpand
    \/ GenerationSucceeds
    \/ GenerationFails
    \/ ImproveClick
    \/ SidePanelCancel
    \/ RegenerateWithEditClick
    \/ RegenerateClick
    \/ RetryClick
    \/ ErrorBackClick
    \/ EditTone(SessionTones)
    \/ EditScriptLength
    \/ ToggleCta
    \/ NextClick
    \/ BackClick
    \/ KeyShiftTab
    \/ CollapseClick
    \/ ModalConfirm
    \/ ModalCancel

SpecResult == InitResult /\ [][NextResult]_vars

(***************************************************************************)
(* Properties.                                                             *)
(***************************************************************************)
\* the step after s in the order Style, Topic, Settings, Refinement, Result
Successor(s) ==
    CASE s = StepStyle -> StepTopic
      [] s = StepTopic -> StepSettings
      [] s = StepSettings -> StepRefinement
      [] s = StepRefinement -> StepResult
      [] OTHER -> s

\* C1: whenever currentStep grows in a step of the running page (a click, a
\* key, a timer or a network completion, not a reload of the page), it grows
\* to the immediate successor: in particular it becomes Result only from
\* Refinement.
C1_ForwardStepIsSuccessor ==
    [][ (currentStep' > currentStep /\ ~Reload)
            => currentStep' = Successor(currentStep) ]_vars

\* C2: currentStep is one of Style, Topic, Settings, Refinement, Result in
\* every reachable state, and handleBack called in a state at Style leaves
\* currentStep at Style.
C2_StepInRange ==
    /\ currentStep \in Steps
    /\ currentStep = StepStyle => handleBack(Cur).currentStep = StepStyle

\* a restored session at Style, where handleBack has nothing to move
C2_Witness ==
    /\ currentStep = StepStyle /\ hasUnsavedChanges /\ isExpanded
    /\ handleBack(Cur).currentStep = StepStyle

\* C3: a step of the Next button, of Enter or of Ctrl+Enter that moves the
\* wizard forward out of Style, Topic or Settings is taken only in a state
\* whose current field values satisfy canProceed.
C3_AdvanceOnlyWhenCanProceed ==
    [][ ( /\ NextClick \/ KeyEnter \/ KeyCtrlEnter
          /\ currentStep \in {StepStyle, StepTopic, StepSettings}
          /\ currentStep' > currentStep )
            => canProceed(Cur) ]_vars

\* the text t has a character that trim() keeps
HasVisibleCharacter(t) == \E i \in DOMAIN t : t[i] # " "

\* C4: canProceed is the per-step predicate: at Style a style is selected
\* and, when it is "other", the custom label has a character other than
\* white space; at Topic the keyword has such a character; at Settings tone
\* and language both differ from "Select"; at Refinement it is false.
C4_CanProceedIsStepPredicate ==
    /\ currentStep = StepStyle =>
          (canProceed(Cur) <=>
              /\ selectedStyle # ""
              /\ selectedStyle = "other" => HasVisibleCharacter(customStyleName))
    /\ currentStep = StepTopic =>
          (canProceed(Cur) <=> HasVisibleCharacter(keyword))
    /\ currentStep = StepSettings =>
          (canProceed(Cur) <=>
              selectedTone # "Select" /\ selectedLanguage # "Select")
    /\ currentStep = StepRefinement => ~canProceed(Cur)

\* the style "other" with a custom label of white space only
C4_Witness ==
    /\ currentStep = StepStyle /\ selectedStyle = "other"
    /\ customStyleName = <<" ">>
    /\ ~canProceed(Cur)

\* C5: a step of handleBack (the Back button or Shift+Tab) taken at
\* Refinement ends at Settings with chatMessages empty and skipRefinement,
\* questionFetchFailed and hasAttemptedQuestionFetch false; taken at any
\* other step above Style it lowers currentStep by one and changes no other
\* field of the session.
C5_BackClearsRefinement ==
    [][ (BackClick \/ KeyShiftTab) =>
          IF currentStep = StepRefinement
          THEN /\ currentStep' = StepSettings
               /\ chatMessages' = <<>>
               /\ ~skipRefinement'
               /\ ~questionFetchFailed'
               /\ ~hasAttemptedQuestionFetch'
          ELSE /\ currentStep' = currentStep - One
               /\ UNCHANGED << isExpanded, selectedStyle, customStyleName,
                               keyword, scriptLength, selectedLanguage,
                               selectedTone, ctaInclusion, chatMessages,
                               userInput, isTyping, skipRefinement,
                               showSkipConfirm, questionFetchFailed,
                               hasAttemptedQuestionFetch, apiResults,
                               isLoading, apiError, scoreData,
                               hasUnsavedChanges, modalConfig >> ]_vars

\* Settings reached by handleBack from a Refinement whose answer is still
\* being processed: the history that held the answer is empty
C5_Witness ==
    /\ currentStep = StepSettings /\ chatMessages = <<>>
    /\ Len(chatTimers) > 0
    /\ ~skipRefinement /\ ~questionFetchFailed /\ ~hasAttemptedQuestionFetch

\* C6: whenever a step of the running page enters Refinement, chatMessages
\* is empty at the moment of entry (no turn of an earlier visit is left or
\* has arrived since the retreat).
C6_RefinementEnteredWithEmptyHistory ==
    [][ ( /\ currentStep # StepRefinement
          /\ currentStep' = StepRefinement
          /\ ~Reload )
            => chatMessages' = <<>> ]_vars

\* C7: every step of the running page that enters Refinement with an empty
\* history issues the first-question fetch, once.
C7_FirstQuestionFetchedOnEntry ==
    [][ ( /\ currentStep # StepRefinement
          /\ currentStep' = StepRefinement
          /\ chatMessages' = <<>>
          /\ ~Reload )
            => Len(questionFetches') = Len(questionFetches) + 1 ]_vars

\* C8: the completion of a generation call, with a result or with an error,
\* starts no further call: the calls in flight are one fewer after it.
C8_NoRestartAfterCompletion ==
    [][ (GenerationSucceeds \/ GenerationFails)
            => Len(generations') = Len(generations) - 1 ]_vars

\* C9: every step of the running page that enters Result leaves apiResults,
\* scoreData and apiError cleared and a new generation call started.
C9_ResultEnteredFresh ==
    [][ ( /\ currentStep # StepResult
          /\ currentStep' = StepResult
          /\ ~Reload )
            => /\ apiResults' = NULL
               /\ scoreData' = NULL
               /\ apiError' = NULL
               /\ Len(generations') = Len(generations) + 1 ]_vars

\* C10: after a reset by handleCollapse, on the direct path and on the path
\* through the confirmation, the wizard is at Style and style, custom label,
\* keyword, duration, tone, language, call-to-action flag, history,
\* skipRefinement, result, scoreData, apiError and isLoading are at their
\* defaults.
C10_CollapseResetsEveryField ==
    [][ (ModalConfirm \/ (CollapseClick /\ ~modalConfig'.show)) =>
          /\ currentStep' = StepStyle
          /\ selectedStyle' = Fresh.selectedStyle
          /\ customStyleName' = Fresh.customStyleName
          /\ keyword' = Fresh.keyword
          /\ scriptLength' = Fresh.scriptLength
          /\ selectedTone' = Fresh.selectedTone
          /\ selectedLanguage' = Fresh.selectedLanguage
          /\ ctaInclusion' = Fresh.ctaInclusion
          /\ chatMessages' = Fresh.chatMessages
          /\ skipRefinement' = Fresh.skipRefinement
          /\ apiResults' = Fresh.apiResults
          /\ scoreData' = Fresh.scoreData
          /\ apiError' = Fresh.apiError
          /\ isLoading' = Fresh.isLoading ]_vars

\* C11: in fetchWithRetry every attempt after the first is preceded by
\* exactly one backoff, and the backoffs slept so far are 1000, 2000 and
\* 4000 ms for the attempts 1, 2 and 3 and 8000 ms for every later attempt;
\* attempt 0 is issued without a delay.
C11_BackoffDelays ==
    /\ call.pc \in {"sleep", "fetch"} => Len(call.delays) = call.i
    /\ call.pc = "fetch" /\ call.i = 0 => call.delays = <<>>
    /\ \A k \in DOMAIN call.delays :
          call.delays[k] = IF k = 1 THEN 1000
                           ELSE IF k = 2 THEN 2000
                           ELSE IF k = 3 THEN 4000
                           ELSE 8000

\* attempt 5 is in flight after five backoffs
C11_Witness ==
    call.pc = "fetch" /\ call.i = 5 /\ call.attempts = 6 /\
    Len(call.delays) = 5

\* C12: a generation call that was not cancelled and whose every attempt
\* was answered with a status >= 500 has made exactly maxRetries + 1
\* attempts and has ended in a server error that is retryable; one whose
\* first attempt was answered with a 4xx status has made exactly one
\* attempt and has ended in a server error that is not retryable.
C12_RetryThenClassify ==
    (ended # NULL /\ ended.abortedIn = "none" /\
     Len(ended.responses) = ended.attempts)
        => /\ (\A k \in DOMAIN ended.responses : ended.responses[k] >= 500)
                => /\ ended.attempts = ended.maxRetries + 1
                   /\ ended.error = [type |-> "server", retryable |-> TRUE]
           /\ (ended.responses[1] >= 400 /\ ended.responses[1] <= 499)
                => /\ ended.attempts = 1
                   /\ ended.error = [type |-> "server", retryable |-> FALSE]

C16_ChunksDoNotMatter ==
    (ended # NULL /\ ended.streamed /\ ended.final # NULL)
        => ended.final =
               normalizeResult(
                   safeJsonParse(Trim(Decode(ended.body, FALSE).text)))

\* a stream that was cut between the two bytes of a character has ended
C16_Witness ==
    /\ ended # NULL
    /\ ended.streamed
    /\ ended.splitInside
    /\ ended.body = BytesAccented
    /\ ended.final = Str(<< DecodedChar >>)

\* C17: while no generation has been started after a streamed generation
\* that returned, apiResults is the normalized result it returned.
C17_TerminalResultStays ==
    (ended # NULL /\ ended.streamed /\ ended.final # NULL /\
     call = NoCall /\ generations = <<>>)
        => apiResults = ended.final

\* the function fn has been applied: applied holds its input and its output
Applied(fn) == applied # NULL /\ applied.fn = fn /\ applied.output # NULL

\* C13: createApiError gives timeout / retryable for a cancellation,
\* otherwise network / retryable without connectivity, otherwise server /
\* retryable for a status 5xx, server / not retryable for a status 4xx and
\* unknown / retryable for anything else; a failure with a status 4xx is
\* never retryable.
C13_ErrorClassification ==
    Applied("createApiError")
        => /\ applied.output =
                  IF applied.input.name = "AbortError"
                  THEN [type |-> "timeout", retryable |-> TRUE]
                  ELSE IF ~applied.input.online
                  THEN [type |-> "network", retryable |-> TRUE]
                  ELSE IF applied.input.status \in 500..599
                  THEN [type |-> "server", retryable |-> TRUE]
                  ELSE IF applied.input.status \in 400..499
                  THEN [type |-> "server", retryable |-> FALSE]
                  ELSE [type |-> "unknown", retryable |-> TRUE]
           /\ applied.input.status \in 400..499
                  => ~applied.output.retryable

\* C15: normalizeResult maps {result: "x"} to "x", {result: {script: "y"}}
\* to {script: "y"}, {result: {content: "z"}} to "z", a string to itself
\* and any other object to itself.
C15_NormalizeResult ==
    Applied("normalizeResult")
        => /\ IsStr(applied.input) => applied.output.value = applied.input
           /\ IsObj(applied.input) =>
                  applied.output.value =
                      IF IsStr(Get(applied.input, KeyResult))
                      THEN Get(applied.input, KeyResult)
                      ELSE IF IsStr(Get(Get(applied.input, KeyResult),
                                        KeyContent))
                      THEN Get(Get(applied.input, KeyResult), KeyContent)
                      ELSE IF IsObj(Get(applied.input, KeyResult))
                      THEN Get(applied.input, KeyResult)
                      ELSE applied.input

\* the words of a text: its runs of characters that are not white space
WordsIn(t) ==
    Cardinality({ i \in DOMAIN t :
                    /\ t[i] \notin WhiteSpace
                    /\ (i = Len(t) \/ t[i + 1] \in WhiteSpace) })

\* C18: for a script of exactly scriptLength / 60 * 150 words the timing
\* score is 100, and for a result whose script text is empty the overall
\* score is 0.
C18_ExactLengthAndEmptyScript ==
    Applied("calculateScores")
        => /\ 2 * WordsIn(ScriptText(applied.input.apiResults)) =
                  5 * applied.input.scriptLength
                  => applied.output.timing = 100
           /\ ScriptText(applied.input.apiResults) = <<>>
                  => applied.output.overall = 0

\* C19: the overall, creativity, engagement, clarity and timing scores
\* that calculateScores computes, and those of scoreData when it is
\* present, are integers from 0 to 100.
C19_ScoresInRange ==
    /\ Applied("calculateScores")
          => \A f \in {"overall", "creativity", "engagement", "clarity",
                        "timing"} : applied.output[f] \in 0..100
    /\ scoreData # NULL
          => \A f \in {"overall", "creativity", "engagement", "clarity",
                        "timing"} : scoreData[f] \in 0..100

\* a script of one word for 180 seconds: every word is unique and the
\* length is far from the expected one
C19_Witness ==
    /\ Applied("calculateScores")
    /\ applied.input.scriptLength = 180
    /\ applied.output.creativity = 100
    /\ applied.output.timing = 0

\* the wizard fields that a snapshot holds, as they are in the state S
WizardFields(S) ==
    << S.currentStep, S.selectedStyle, S.customStyleName, S.keyword,
       S.scriptLength, S.selectedLanguage, S.selectedTone, S.ctaInclusion,
       S.chatMessages >>

\* the snapshot in the session storage is an hour old or older, or has no
\* timestamp
StaleSnapshot(st) ==
    /\ st # NULL
    /\ \/ st.timestamp = 0
       \/ PageLoadTime - st.timestamp >= FreshWindow

\* C20: when the page is loaded over a snapshot that is an hour old or
\* older, or that has no timestamp, every wizard field keeps its initial
\* value and nothing is marked as unsaved; a snapshot that is younger is
\* applied, field by field.
C20_StaleSnapshotNotRestored ==
    [][ Reload =>
          /\ StaleSnapshot(storage')
                => /\ WizardFields(Cur') = WizardFields(Fresh)
                   /\ ~hasUnsavedChanges'
          /\ (storage' # NULL /\ ~StaleSnapshot(storage'))
                => /\ WizardFields(Cur') = WizardFields(storage')
                   /\ hasUnsavedChanges' ]_vars

\* the page was loaded exactly one hour after a snapshot with a style, a
\* keyword and a later step was saved: the wizard is at its first step
C20_Witness ==
    /\ storage # NULL
    /\ storage.timestamp = PageLoadTime - FreshWindow
    /\ storage.currentStep > StepStyle
    /\ storage.keyword # <<>>
    /\ storage.selectedStyle # ""
    /\ ~isExpanded
    /\ currentStep = StepStyle
    /\ keyword = <<>>
    /\ selectedStyle = ""
    /\ ~hasUnsavedChanges

\* C26: skipRefinement becomes true only in a step taken while the confirm
\* dialog is open, and that step closes the dialog and sets the step to
\* Result; the Skip button alone opens the dialog and changes neither the
\* step nor skipRefinement, and dismissing the dialog closes it and changes
\* neither.
C26_SkipIsTwoPhase ==
    [][ /\ (skipRefinement' /\ ~skipRefinement)
            => /\ showSkipConfirm
               /\ currentStep = StepRefinement
               /\ currentStep' = StepResult
               /\ ~showSkipConfirm'
        /\ SkipClick
            => /\ showSkipConfirm'
               /\ currentStep' = currentStep
               /\ skipRefinement' = skipRefinement
        /\ SkipDismiss
            => /\ ~showSkipConfirm'
               /\ currentStep' = currentStep
               /\ skipRefinement' = skipRefinement ]_vars

\* the skip was confirmed: the wizard is at Result with skipRefinement set
C26_Witness ==
    /\ skipRefinement
    /\ currentStep = StepResult
    /\ ~showSkipConfirm
    /\ isExpanded

\* a reset: the step collapses the expanded wizard on its page
CollapseResets == isExpanded /\ ~isExpanded' /\ ~Reload

StartedRequest == generations'[Len(generations')]

\* C27: a generation started by the step that confirms the skip carries
\* refinementContext = null, and a generation started by the step in which
\* the closing timer of a completed chat moves the wizard from Refinement to
\* Result carries the user's answers of the history, never null.
C27_ContextNullIffSkipped ==
    [][ (Len(generations') = Len(generations) + 1)
            => /\ SkipConfirm => StartedRequest.refinementContext = NULL
               /\ (StepTimerFires /\ currentStep = StepRefinement)
                    => /\ StartedRequest.refinementContext # NULL
                       /\ StartedRequest.refinementContext
                              = UserAnswers(chatMessages) ]_vars

\* C28: chatMessages never holds more than 50 turns.
C28_AtMostFiftyTurns == Len(chatMessages) <= KeepLast + 1

\* C29: no turn of the assistant that is followed by an answer of the user
\* still offers options.
C29_AnsweredTurnsOfferNothing ==
    \A i \in 1..(Len(chatMessages) - 1) :
        (chatMessages[i].type = "ai" /\ chatMessages[i + 1].type = "user")
            => chatMessages[i].options # "some"

\* C30: a step appends a turn of the assistant only by ending a typing
\* simulation; and a step that accepts an answer of the user (it appends a
\* user turn and schedules the continuation) is taken only while no typing
\* simulation runs and no continuation of an earlier answer is waiting for
\* its timer or its fetch.
C30_NoAnswerWhileBusy ==
    [][ /\ (/\ Len(chatMessages') > 0
            /\ chatMessages' # chatMessages
            /\ chatMessages'[Len(chatMessages')].type = "ai")
            => (typing # NULL /\ typing' = NULL)
        /\ (Len(chatTimers') > Len(chatTimers))
            => /\ typing = NULL /\ ~isTyping
               /\ chatTimers = <<>> /\ questionFetches = <<>> ]_vars

\* C24: a step in which a question fetch (the first or a later one) fails
\* schedules no other fetch, adds the fallback message of the assistant to
\* the history, leaves the step where it is and starts neither the closing
\* acknowledgement nor the timer that moves the wizard to Result.
C24_FailedFetchStaysInRefinement ==
    [][ (NextQuestionFails \/ FirstQuestionFails)
            => /\ Len(questionFetches') <= Len(questionFetches)
               /\ Len(chatTimers') <= Len(chatTimers)
               /\ Len(chatMessages') > 0
               /\ chatMessages'[Len(chatMessages')] = FallbackTurn
               /\ currentStep' = currentStep
               /\ stepTimers' = stepTimers
               /\ (typing' # NULL => typing'.content # "closing") ]_vars

\* the step sets apiError to an error
SetsApiError == apiError' # NULL /\ apiError' # apiError

\* C25 as stated: apiError changes only in a step that starts a generation
\* call or in which a generation call fails (a page load apart).
C25_ApiErrorOnlyByGeneration ==
    [][ (apiError' # apiError /\ ~Reload)
            => (GenerationFails \/ Len(generations') > Len(generations)) ]_vars

\* C25: a step in which a question fetch fails leaves apiError as it was,
\* and apiError is set to an error only in a step in which a generation
\* call fails; the reset of the collapsed wizard also clears it.
C25_QuestionFailureLeavesApiError ==
    [][ /\ (NextQuestionFails \/ FirstQuestionFails) => apiError' = apiError
        /\ SetsApiError => GenerationFails
        /\ (apiError' # apiError /\ ~Reload)
            => \/ GenerationFails
               \/ Len(generations') > Len(generations)
               \/ CollapseClick ]_vars

\* a later question fetch has failed while an error of an earlier
\* generation call is still held: the closing acknowledgement is being typed
C25_Witness ==
    /\ apiError # NULL
    /\ currentStep = StepRefinement
    /\ typing # NULL
    /\ typing.content = "closing"

\* the wizard has entered Refinement with an empty history
EnteredRefinement ==
    isExpanded /\ currentStep = StepRefinement /\ chatMessages = <<>>

\* a question of the assistant is in the history
QuestionAppended ==
    \E i \in DOMAIN chatMessages :
        chatMessages[i].type = "ai" /\ chatMessages[i].content = "question"

\* the service has returned question: null to an answer of the user
ChatCompleted == typing # NULL /\ typing.content = "closing"

\* the result is displayed
ResultDisplayed ==
    currentStep = StepResult /\ ~isLoading /\ apiResults # NULL

\* C23: once the wizard has entered Refinement with an empty history a
\* question is eventually appended to it, unless the user leaves the page;
\* and once the service has returned question: null to an answer the wizard
\* eventually stands at Result with isLoading false again and apiResults
\* non-null.
C23_EndToEnd ==
    /\ EnteredRefinement
          ~> (QuestionAppended \/ currentStep # StepRefinement)
    /\ ChatCompleted ~> ResultDisplayed

\* the notice of a storage failure is displayed
NoticeShown == modalConfig.show /\ modalConfig.type = "alert"

\* C21: over a storage whose setItem throws, the auto-save effect changes
\* nothing but modalConfig, which becomes the "Auto-save Failed" notice, and
\* Next, Back and the confirmed skip still move the step; a page load over
\* an item that cannot be parsed leaves the wizard collapsed at its fresh
\* defaults under the "Restore Failed" notice; and confirming a notice
\* closes it and changes neither a wizard field nor the step.
C21_StorageFailureOnlyNotifies ==
    [][ /\ (storage = QuotaExceeded /\ isExpanded)
            => AutoSaveEffect(Cur, Cur) =
                   [Cur EXCEPT !.modalConfig = Notice("Auto-save Failed")]
        /\ storage = QuotaExceeded
            => /\ storage' = QuotaExceeded
               /\ NextClick => currentStep' > currentStep
               /\ BackClick => currentStep' < currentStep
               /\ SkipConfirm => currentStep' = StepResult
               /\ (isExpanded' /\ AutoSaveDeps(Cur') # AutoSaveDeps(Cur))
                    => modalConfig' = Notice("Auto-save Failed")
        /\ (storage = Unparsable /\ Reload)
            => /\ WizardFields(Cur') = WizardFields(Fresh)
               /\ ~isExpanded' /\ ~hasUnsavedChanges'
               /\ modalConfig' = Notice("Restore Failed")
        /\ (NoticeShown /\ ModalConfirm)
            => /\ ~modalConfig'.show
               /\ WizardFields(Cur') = WizardFields(Cur)
               /\ isExpanded' = isExpanded ]_vars

\* the wizard has gone forward to Refinement over a storage whose setItem
\* throws, and the notice of the failed save is displayed
C21_Witness ==
    /\ storage = QuotaExceeded
    /\ currentStep = StepRefinement
    /\ modalConfig = Notice("Auto-save Failed")

\* the question fetches outstanding: those of the continuations of
\* handleChatResponse and those of the first-question effect
OutstandingQuestionFetches ==
    Cardinality({ i \in DOMAIN chatTimers : chatTimers[i].phase = "fetch" })
        + Len(questionFetches)

\* C31: at most one question fetch is outstanding at any time (the typing
\* simulation is one by construction: typeMessage cancels the one before).
C31_OneFetchAtATime == OutstandingQuestionFetches <= 1

\* C32: when the timer of an answer fires and the request for the next
\* question is issued, the answer is in the history, and the
\* conversationHistory of the request is the whole history with that answer
\* as its last entry.
C32_RequestCarriesAnswer ==
    [][ \A i \in DOMAIN chatTimers :
          (/\ chatTimers[i].phase = "delay"
           /\ Len(chatTimers') = Len(chatTimers)
           /\ chatTimers'[i].phase = "fetch")
            => LET sent == chatTimers'[i].conversationHistory
               IN  /\ Len(sent) > 0
                   /\ sent[Len(sent)].role = "user"
                   /\ Len(chatTimers) = 1
                        => sent = ConversationHistory(chatMessages) ]_vars

\* a step of the user that retries, goes back or resets
UserRetriesOrLeaves ==
    \/ RegenerateClick \/ BackClick \/ KeyShiftTab
    \/ CollapseClick \/ ModalConfirm \/ Reload

\* C33: the step in which a generation call fails leaves apiError set to
\* the classified error and isLoading false, and an error that is held is
\* cleared only by a step in which the user retries, goes back or resets.
C33_ErrorPersistsUntilUserActs ==
    [][ /\ GenerationFails => (apiError' # NULL /\ ~isLoading')
        /\ (apiError # NULL /\ apiError' = NULL) => UserRetriesOrLeaves ]_vars

\* a continuation of the refinement chat completes: a chat timer, a question
\* fetch, a typing simulation or the timer of the closing acknowledgement
ChatCompletion ==
    \/ ChatTimerFires \/ NextQuestionArrives \/ FirstQuestionArrives
    \/ TypingEnds \/ StepTimerFires

\* a generation call completes
GenerationCompletion == GenerationSucceeds \/ GenerationFails

\* C34: a continuation of the chat that completes after the wizard has left
\* Refinement for an earlier step (by going back or by a reset), and a
\* generation call that completes after the wizard has been reset, change
\* none of currentStep, chatMessages, apiResults, apiError, scoreData and
\* isLoading.
C34_LateCompletionIgnored ==
    [][ (\/ currentStep < StepRefinement /\ ChatCompletion
         \/ ~isExpanded /\ currentStep = StepStyle /\ GenerationCompletion)
            => UNCHANGED << currentStep, chatMessages, apiResults, apiError,
                            scoreData, isLoading >> ]_vars

\* the closing acknowledgement as a turn of the history
ClosingTurn == [type |-> "ai", content |-> "closing", options |-> "none"]

\* the timer of the transition to Result is set by a step that ends the
\* typing of the closing acknowledgement and appends it, the step unchanged
ClosingAppendedFirst ==
    (stepTimers' > stepTimers)
        => /\ typing # NULL /\ typing' = NULL
           /\ Len(chatMessages') > 0
           /\ chatMessages'[Len(chatMessages')] = ClosingTurn
           /\ currentStep' = currentStep

\* C35: the timer that moves the wizard to Result is set only by the step
\* that appends the typed closing acknowledgement, and when it fires the
\* step changes only if the wizard is still in Refinement.
C35_ClosingThenResult ==
    [][ /\ ClosingAppendedFirst
        /\ (StepTimerFires /\ currentStep # StepRefinement)
            => currentStep' = currentStep ]_vars

\* C36: whenever the wizard is at Result with the error panel shown, a
\* button that goes back is rendered whatever apiError.retryable is, and the
\* "Retry" button is rendered exactly when apiError.retryable is true.
C36_ErrorPanelOffersBack ==
    ErrorDisplayed => /\ BackOffered
                      /\ RetryOffered <=> apiError.retryable

\* the attempts of the call that have completed: answered, failed below HTTP
\* or rejected by the abort of the signal
CompletedAttempts(c) ==
    Len(c.responses) + c.rejects + (IF c.abortedIn = "fetch" THEN 1 ELSE 0)

\* C37: within one call of fetchWithRetry the attempts are sequential: an
\* attempt starts only in the step that ends a backoff, after every earlier
\* attempt has completed and one backoff per earlier attempt has been slept;
\* at most one attempt is in flight, and that exactly while the call stands
\* at its fetch; and the call never makes more than maxRetries + 1 attempts.
C37_AttemptsAreSequential ==
    /\ [](call.pc # "none" =>
            /\ call.attempts - CompletedAttempts(call) \in {0, 1}
            /\ call.attempts - CompletedAttempts(call) = 1
                  <=> call.pc = "fetch"
            /\ call.attempts <= call.maxRetries + 1)
    /\ [][(call.pc # "none" /\ call'.attempts # call.attempts)
            => /\ call'.attempts = call.attempts + 1
               /\ call.pc = "sleep" /\ call'.pc = "fetch"
               /\ CompletedAttempts(call) = call.attempts
               /\ Len(call.delays) = call.attempts
               /\ call'.delays = call.delays ]_vars

\* with maxRetries = 3 the fourth attempt is in flight after two answers
\* >= 500 and one failure below HTTP
C37_Witness ==
    /\ call.pc = "fetch" /\ call.maxRetries = 3 /\ call.attempts = 4
    /\ Len(call.responses) = 2 /\ call.rejects = 1

\* scoreData is what calculateScores sets over the result in apiResults, for
\* some script length and call-to-action setting of the wizard
ScoredFromResults ==
    \E n \in Lengths \cup {scriptLength}, cta \in BOOLEAN :
        scoreData = ScoresOf(ScriptText(apiResults), n, cta)

\* C38: in every reachable state an absent apiResults implies an absent
\* scoreData, and a present scoreData is the score computed from the
\* current apiResults.
C38_ScoreOnlyWithResult ==
    /\ apiResults = NULL => scoreData = NULL
    /\ (apiResults # NULL /\ scoreData # NULL) => ScoredFromResults

\* sessionStorage holds a snapshot that the restore effect takes as fresh
FreshSnapshot(st) ==
    /\ "timestamp" \in DOMAIN st
    /\ st.timestamp # 0
    /\ PageLoadTime - st.timestamp < FreshWindow

C40_LoadingEnds ==
    /\ isLoading ~> ~isLoading
    /\ (currentStep = StepResult) ~> (apiResults # NULL \/ apiError # NULL)

====
